---- MODULE Spec2Model ----
\* AstroMediaServer setup wizard (scripts/astro-setup.py): the ComposeGenerator
\* rule pipeline that expands a UserConfig into the docker-compose service
\* graph, the Homepage link list derived from the same UserConfig, and
\* SetupWizard.run(), the step sequence that collects the UserConfig and then
\* creates directories, writes the manifest and deploys.
\*
\* Python values are modelled as follows.
\*   str            a TLA+ string (f-strings are built with \o)
\*   list           a sequence
\*   dict (a spec)  a function from key strings to values; optional keys are
\*                  absent from its DOMAIN
\*   self.services  an insertion-ordered dict: [keys |-> <<names>>, vals |-> f]
\*   Optional[x]    <<>> for None, <<x>> otherwise
EXTENDS Integers, Sequences, FiniteSets, TLC

VARIABLES
    config,      \* SetupWizard.config / ComposeGenerator.config (UserConfig)
    services,    \* ComposeGenerator.services
    gpc,         \* position inside ComposeGenerator.generate()
    err,         \* exception raised by generate(), "" when none
    homepage,    \* Optional: result of _build_homepage_services() in hand / written
    pc,          \* position inside SetupWizard.run()
    step,        \* index of the next entry of the step list
    executed,    \* the wizard steps called so far, in call order
    results,     \* the value each of those calls returned (none when it raised)
    cancel,      \* kind of dialog the last step called saw cancelled, "" when none
    stages,      \* the setup stages called so far, in call order
    shown,       \* message boxes of run() and deploy_stack() that whiptail displayed
    ret,         \* Optional: value returned by run(); None when an exception left it
    dirs,        \* directories created by create_directories
    manifest,    \* Optional: compose_config written to COMPOSE_FILE
    deployed,    \* Optional: docker compose was invoked; its success
    dialog_error, \* exception WhiptailUI._run raised in this run, "" when none
    printed      \* lines WhiptailUI._run printed on stdout

vars == <<config, services, gpc, err, homepage, pc, step, executed, results,
          cancel, stages, shown, ret, dirs, manifest, deployed, dialog_error,
          printed>>

genVars == <<services, gpc, err>>
wizVars == <<pc, step, executed, results, cancel, stages, shown, ret, dirs, manifest,
            deployed, dialog_error, printed>>

----------------------------------------------------------------------------
\* Bounds of the model (not program constants).

\* How many entries of the VPN provider menu the user may pick from.
MaxProviders == 1

\* How many entries of the extra-services checklist the user may tick.
MaxExtras == 1

\* How many enumerated fields of a UserConfig handed directly to
\* ComposeGenerator may hold a value outside the known set.
MaxUnknownFields == 1

----------------------------------------------------------------------------
\* Generic helpers.

Range(s) == {s[i] : i \in DOMAIN s}

None == <<>>
Some(x) == <<x>>

\* Python truthiness of an Optional[str]: None and "" are falsy.
Truthy(r) == r # None /\ r[1] # ""

EmptyDict == [keys |-> <<>>, vals |-> <<>>]

Has(d, k) == k \in Range(d.keys)

\* d[k] = v on an insertion-ordered dict: a new key goes last, an existing key
\* keeps its place.  (dd binds the dict, so that it is evaluated once.)
DictSet(d, k, v) ==
    CHOOSE r \in {[keys |-> IF Has(dd, k) THEN dd.keys ELSE Append(dd.keys, k),
                   vals |-> [x \in (Range(dd.keys) \cup {k}) |->
                               IF x = k THEN v ELSE dd.vals[x]]] : dd \in {d}} : TRUE

\* spec.pop(key, None) on a service spec.
Pop(spec, key) == [f \in (DOMAIN spec) \ {key} |-> spec[f]]

\* spec[key] = v on a service spec (adds the key when absent).
Put(spec, key, v) == [f \in (DOMAIN spec) \cup {key} |-> IF f = key THEN v ELSE spec[f]]

----------------------------------------------------------------------------
\* Module-level constants.

ASTRO_DIR == "/opt/astro"
CONFIG_DIR == ASTRO_DIR \o "/config"
MEDIA_DIR == ASTRO_DIR \o "/media"
COMPOSE_FILE == ASTRO_DIR \o "/docker-compose.yml"

DEFAULT_PUID == "1000"
DEFAULT_PGID == "1000"
DEFAULT_TZ == "America/New_York"

\* UserConfig(): the dataclass defaults, extra_services set by __post_init__.
UserConfig ==
    [media_server |-> "jellyfin", downloader |-> "qbittorrent",
     gateway |-> "traefik", dashboard |-> "homepage",
     timezone |-> DEFAULT_TZ, puid |-> DEFAULT_PUID, pgid |-> DEFAULT_PGID,
     enable_usenet |-> FALSE, enable_torrents |-> TRUE,
     enable_vpn |-> FALSE, vpn_provider |-> "", vpn_username |-> "",
     vpn_password |-> "", extra_services |-> <<>>,
     enable_transcoding |-> FALSE, transcoding_type |-> ""]

IMAGES ==
    [plex |-> "lscr.io/linuxserver/plex:latest",
     jellyfin |-> "lscr.io/linuxserver/jellyfin:latest",
     emby |-> "lscr.io/linuxserver/emby:latest",
     radarr |-> "lscr.io/linuxserver/radarr:latest",
     sonarr |-> "lscr.io/linuxserver/sonarr:latest",
     lidarr |-> "lscr.io/linuxserver/lidarr:latest",
     readarr |-> "lscr.io/linuxserver/readarr:latest",
     prowlarr |-> "lscr.io/linuxserver/prowlarr:latest",
     bazarr |-> "lscr.io/linuxserver/bazarr:latest",
     qbittorrent |-> "lscr.io/linuxserver/qbittorrent:latest",
     sabnzbd |-> "lscr.io/linuxserver/sabnzbd:latest",
     nzbget |-> "lscr.io/linuxserver/nzbget:latest",
     traefik |-> "traefik:latest",
     homepage |-> "ghcr.io/gethomepage/homepage:latest",
     heimdall |-> "lscr.io/linuxserver/heimdall:latest",
     watchtower |-> "containrrr/watchtower:latest",
     portainer |-> "portainer/portainer-ce:latest",
     overseerr |-> "lscr.io/linuxserver/overseerr:latest",
     tautulli |-> "lscr.io/linuxserver/tautulli:latest",
     gluetun |-> "qmcgaw/gluetun:latest"]
    @@ ("nginx-proxy-manager" :> "jc21/nginx-proxy-manager:latest")

----------------------------------------------------------------------------
\* ComposeGenerator: one operator per rule, (config, services) -> services.

_base_env(cfg) == [PUID |-> cfg.puid, PGID |-> cfg.pgid, TZ |-> cfg.timezone]

\* IMAGES[server] raises KeyError for a server that is not a catalogue key.
Raises_add_media_server(cfg) == cfg.media_server \notin DOMAIN IMAGES

_add_media_server(cfg, svcs) ==
    LET server == cfg.media_server
        base == [image |-> IMAGES[server],
                 container_name |-> server,
                 restart |-> "unless-stopped",
                 environment |-> _base_env(cfg),
                 volumes |-> << CONFIG_DIR \o "/" \o server \o ":/config",
                                MEDIA_DIR \o "/movies:/movies",
                                MEDIA_DIR \o "/tv:/tv",
                                MEDIA_DIR \o "/music:/music" >>]
        spec == IF server = "plex"
                  THEN Put(Put(base, "network_mode", "host"),
                           "environment", Put(base.environment, "VERSION", "docker"))
                ELSE IF server = "jellyfin"
                  THEN Put(base, "ports", <<"8096:8096">>)
                ELSE IF server = "emby"
                  THEN Put(base, "ports", <<"8096:8096">>)
                ELSE base
    IN  DictSet(svcs, server, spec)

arr_names == <<"radarr", "sonarr", "lidarr", "readarr", "prowlarr">>

arr_configs ==
    [radarr |-> [port |-> "7878:7878"],
     sonarr |-> [port |-> "8989:8989"],
     lidarr |-> [port |-> "8686:8686"],
     readarr |-> [port |-> "8787:8787"],
     prowlarr |-> [port |-> "9696:9696"]]

\* The body of the for loop of _add_arr_suite for one name.
\* arr_service with the torrents downloads volume added whatever the toggle.
arr_service_torrents_volume_always(cfg, name) ==
    LET v0 == << CONFIG_DIR \o "/" \o name \o ":/config" >>
        v1 == IF name \in {"radarr", "sonarr", "lidarr", "readarr"}
                THEN v0 \o << MEDIA_DIR \o "/movies:/movies",
                              MEDIA_DIR \o "/tv:/tv",
                              MEDIA_DIR \o "/music:/music",
                              MEDIA_DIR \o "/books:/books" >>
                        \o << ASTRO_DIR \o "/torrents:/downloads/torrents" >>
                        \o (IF cfg.enable_usenet
                              THEN << ASTRO_DIR \o "/usenet:/downloads/usenet" >>
                              ELSE <<>>)
                ELSE v0
    IN  [image |-> IMAGES[name],
         container_name |-> name,
         restart |-> "unless-stopped",
         environment |-> _base_env(cfg),
         ports |-> << arr_configs[name].port >>,
         volumes |-> v1]

arr_service(cfg, name) ==
    LET v0 == << CONFIG_DIR \o "/" \o name \o ":/config" >>
        v1 == IF name \in {"radarr", "sonarr", "lidarr", "readarr"}
                THEN v0 \o << MEDIA_DIR \o "/movies:/movies",
                              MEDIA_DIR \o "/tv:/tv",
                              MEDIA_DIR \o "/music:/music",
                              MEDIA_DIR \o "/books:/books" >>
                        \o (IF cfg.enable_torrents
                              THEN << ASTRO_DIR \o "/torrents:/downloads/torrents" >>
                              ELSE <<>>)
                        \o (IF cfg.enable_usenet
                              THEN << ASTRO_DIR \o "/usenet:/downloads/usenet" >>
                              ELSE <<>>)
                ELSE v0
    IN  [image |-> IMAGES[name],
         container_name |-> name,
         restart |-> "unless-stopped",
         environment |-> _base_env(cfg),
         ports |-> << arr_configs[name].port >>,
         volumes |-> v1]

RECURSIVE arr_loop(_, _, _)
arr_loop(cfg, svcs, i) ==
    IF i > Len(arr_names) THEN svcs
    ELSE arr_loop(cfg, DictSet(svcs, arr_names[i], arr_service(cfg, arr_names[i])), i + 1)

_add_arr_suite(cfg, svcs) == arr_loop(cfg, svcs, 1)

\* usenet_client of _add_downloader.
usenet_client(cfg) ==
    IF cfg.downloader \in {"sabnzbd", "nzbget"} THEN cfg.downloader ELSE "sabnzbd"

\* _add_downloader adding the usenet client whenever the selected downloader
\* is one, whatever enable_usenet says.
_add_downloader_by_selection(cfg, svcs) ==
    LET s1 == IF cfg.enable_torrents
                THEN DictSet(svcs, "qbittorrent",
                        [image |-> IMAGES["qbittorrent"],
                         container_name |-> "qbittorrent",
                         restart |-> "unless-stopped",
                         environment |-> Put(_base_env(cfg), "WEBUI_PORT", "8080"),
                         ports |-> <<"8080:8080", "6881:6881", "6881:6881/udp">>,
                         volumes |-> << CONFIG_DIR \o "/qbittorrent:/config",
                                        ASTRO_DIR \o "/torrents:/downloads" >>])
                ELSE svcs
        client == usenet_client(cfg)
        port == IF client = "sabnzbd" THEN "8080" ELSE "6789"
    IN  IF cfg.enable_usenet \/ cfg.downloader \in {"sabnzbd", "nzbget"}
          THEN DictSet(s1, client,
                  [image |-> IMAGES[client],
                   container_name |-> client,
                   restart |-> "unless-stopped",
                   environment |-> _base_env(cfg),
                   ports |-> << port \o ":" \o port >>,
                   volumes |-> << CONFIG_DIR \o "/" \o client \o ":/config",
                                  ASTRO_DIR \o "/usenet:/downloads" >>])
          ELSE s1

_add_downloader(cfg, svcs) ==
    LET s1 == IF cfg.enable_torrents
                THEN DictSet(svcs, "qbittorrent",
                        [image |-> IMAGES["qbittorrent"],
                         container_name |-> "qbittorrent",
                         restart |-> "unless-stopped",
                         environment |-> Put(_base_env(cfg), "WEBUI_PORT", "8080"),
                         ports |-> <<"8080:8080", "6881:6881", "6881:6881/udp">>,
                         volumes |-> << CONFIG_DIR \o "/qbittorrent:/config",
                                        ASTRO_DIR \o "/torrents:/downloads" >>])
                ELSE svcs
        client == usenet_client(cfg)
        port == IF client = "sabnzbd" THEN "8080" ELSE "6789"
    IN  IF cfg.enable_usenet
          THEN DictSet(s1, client,
                  [image |-> IMAGES[client],
                   container_name |-> client,
                   restart |-> "unless-stopped",
                   environment |-> _base_env(cfg),
                   ports |-> << port \o ":" \o port >>,
                   volumes |-> << CONFIG_DIR \o "/" \o client \o ":/config",
                                  ASTRO_DIR \o "/usenet:/downloads" >>])
          ELSE s1

_add_gateway(cfg, svcs) ==
    LET gateway == cfg.gateway
    IN  IF gateway = "traefik"
          THEN DictSet(svcs, "traefik",
                  [image |-> IMAGES["traefik"],
                   container_name |-> "traefik",
                   restart |-> "unless-stopped",
                   command |-> <<"--api.dashboard=true",
                                 "--api.insecure=true",
                                 "--providers.docker=true",
                                 "--providers.docker.exposedbydefault=false",
                                 "--entrypoints.web.address=:80">>,
                   ports |-> <<"80:80", "8081:8080">>,
                   volumes |-> << "/var/run/docker.sock:/var/run/docker.sock:ro",
                                  CONFIG_DIR \o "/traefik:/etc/traefik" >>])
        ELSE IF gateway = "nginx-proxy-manager"
          THEN DictSet(svcs, "nginx-proxy-manager",
                  [image |-> IMAGES["nginx-proxy-manager"],
                   container_name |-> "nginx-proxy-manager",
                   restart |-> "unless-stopped",
                   ports |-> <<"80:80", "443:443", "81:81">>,
                   volumes |-> << CONFIG_DIR \o "/npm/data:/data",
                                  CONFIG_DIR \o "/npm/letsencrypt:/etc/letsencrypt" >>])
        ELSE svcs

_add_dashboard(cfg, svcs) ==
    LET dashboard == cfg.dashboard
    IN  IF dashboard = "homepage"
          THEN DictSet(svcs, "homepage",
                  [image |-> IMAGES["homepage"],
                   container_name |-> "homepage",
                   restart |-> "unless-stopped",
                   ports |-> <<"3000:3000">>,
                   volumes |-> << CONFIG_DIR \o "/homepage:/app/config",
                                  "/var/run/docker.sock:/var/run/docker.sock:ro" >>,
                   environment |-> _base_env(cfg)])
        ELSE IF dashboard = "heimdall"
          THEN DictSet(svcs, "heimdall",
                  [image |-> IMAGES["heimdall"],
                   container_name |-> "heimdall",
                   restart |-> "unless-stopped",
                   ports |-> <<"3000:80">>,
                   volumes |-> << CONFIG_DIR \o "/heimdall:/config" >>,
                   environment |-> _base_env(cfg)])
        ELSE svcs

_add_watchtower(cfg, svcs) ==
    DictSet(svcs, "watchtower",
        [image |-> IMAGES["watchtower"],
         container_name |-> "watchtower",
         restart |-> "unless-stopped",
         volumes |-> <<"/var/run/docker.sock:/var/run/docker.sock">>,
         environment |-> [WATCHTOWER_CLEANUP |-> "true",
                          WATCHTOWER_SCHEDULE |-> "0 0 4 * * *"]])

\* _add_extra_services creating the request manager whether it is selected
\* or not.
_add_extra_services_always_overseerr(cfg, svcs) ==
    LET extras == Range(cfg.extra_services)
        s1 == IF "bazarr" \in extras
                THEN DictSet(svcs, "bazarr",
                        [image |-> IMAGES["bazarr"],
                         container_name |-> "bazarr",
                         restart |-> "unless-stopped",
                         environment |-> _base_env(cfg),
                         ports |-> <<"6767:6767">>,
                         volumes |-> << CONFIG_DIR \o "/bazarr:/config",
                                        MEDIA_DIR \o "/movies:/movies",
                                        MEDIA_DIR \o "/tv:/tv" >>])
                ELSE svcs
        s2 == IF TRUE
                THEN DictSet(s1, "overseerr",
                        [image |-> IMAGES["overseerr"],
                         container_name |-> "overseerr",
                         restart |-> "unless-stopped",
                         environment |-> _base_env(cfg),
                         ports |-> <<"5055:5055">>,
                         volumes |-> << CONFIG_DIR \o "/overseerr:/config" >>])
                ELSE s1
        s3 == IF "tautulli" \in extras
                THEN DictSet(s2, "tautulli",
                        [image |-> IMAGES["tautulli"],
                         container_name |-> "tautulli",
                         restart |-> "unless-stopped",
                         environment |-> _base_env(cfg),
                         ports |-> <<"8181:8181">>,
                         volumes |-> << CONFIG_DIR \o "/tautulli:/config" >>])
                ELSE s2
    IN  IF "portainer" \in extras
          THEN DictSet(s3, "portainer",
                  [image |-> IMAGES["portainer"],
                   container_name |-> "portainer",
                   restart |-> "unless-stopped",
                   ports |-> <<"9000:9000">>,
                   volumes |-> << "/var/run/docker.sock:/var/run/docker.sock",
                                  CONFIG_DIR \o "/portainer:/data" >>])
          ELSE s3

_add_extra_services(cfg, svcs) ==
    LET extras == Range(cfg.extra_services)
        s1 == IF "bazarr" \in extras
                THEN DictSet(svcs, "bazarr",
                        [image |-> IMAGES["bazarr"],
                         container_name |-> "bazarr",
                         restart |-> "unless-stopped",
                         environment |-> _base_env(cfg),
                         ports |-> <<"6767:6767">>,
                         volumes |-> << CONFIG_DIR \o "/bazarr:/config",
                                        MEDIA_DIR \o "/movies:/movies",
                                        MEDIA_DIR \o "/tv:/tv" >>])
                ELSE svcs
        s2 == IF "overseerr" \in extras
                THEN DictSet(s1, "overseerr",
                        [image |-> IMAGES["overseerr"],
                         container_name |-> "overseerr",
                         restart |-> "unless-stopped",
                         environment |-> _base_env(cfg),
                         ports |-> <<"5055:5055">>,
                         volumes |-> << CONFIG_DIR \o "/overseerr:/config" >>])
                ELSE s1
        s3 == IF "tautulli" \in extras
                THEN DictSet(s2, "tautulli",
                        [image |-> IMAGES["tautulli"],
                         container_name |-> "tautulli",
                         restart |-> "unless-stopped",
                         environment |-> _base_env(cfg),
                         ports |-> <<"8181:8181">>,
                         volumes |-> << CONFIG_DIR \o "/tautulli:/config" >>])
                ELSE s2
    IN  IF "portainer" \in extras
          THEN DictSet(s3, "portainer",
                  [image |-> IMAGES["portainer"],
                   container_name |-> "portainer",
                   restart |-> "unless-stopped",
                   ports |-> <<"9000:9000">>,
                   volumes |-> << "/var/run/docker.sock:/var/run/docker.sock",
                                  CONFIG_DIR \o "/portainer:/data" >>])
          ELSE s3

\* A gluetun entry that forgets the UDP port of the torrent client.
gluetun_service_without_udp(cfg) ==
    [image |-> IMAGES["gluetun"],
     container_name |-> "gluetun",
     restart |-> "unless-stopped",
     cap_add |-> <<"NET_ADMIN">>,
     devices |-> <<"/dev/net/tun:/dev/net/tun">>,
     environment |-> [VPN_SERVICE_PROVIDER |-> cfg.vpn_provider,
                      VPN_TYPE |-> "openvpn",
                      OPENVPN_USER |-> cfg.vpn_username,
                      OPENVPN_PASSWORD |-> cfg.vpn_password,
                      TZ |-> cfg.timezone],
     ports |-> <<"8080:8080", "6881:6881">>,
     volumes |-> << CONFIG_DIR \o "/gluetun:/gluetun" >>]

\* The gluetun entry _add_vpn creates.
gluetun_service(cfg) ==
    [image |-> IMAGES["gluetun"],
     container_name |-> "gluetun",
     restart |-> "unless-stopped",
     cap_add |-> <<"NET_ADMIN">>,
     devices |-> <<"/dev/net/tun:/dev/net/tun">>,
     environment |-> [VPN_SERVICE_PROVIDER |-> cfg.vpn_provider,
                      VPN_TYPE |-> "openvpn",
                      OPENVPN_USER |-> cfg.vpn_username,
                      OPENVPN_PASSWORD |-> cfg.vpn_password,
                      TZ |-> cfg.timezone],
     ports |-> <<"8080:8080", "6881:6881", "6881:6881/udp">>,
     volumes |-> << CONFIG_DIR \o "/gluetun:/gluetun" >>]

\* _add_vpn that points qbittorrent at the tunnel but never adds the tunnel.
_add_vpn_without_tunnel(cfg, svcs) ==
    IF ~cfg.enable_vpn THEN svcs
    ELSE IF Has(svcs, "qbittorrent")
      THEN DictSet(svcs, "qbittorrent",
              Put(Put(Pop(svcs.vals["qbittorrent"], "ports"),
                      "network_mode", "service:gluetun"),
                  "depends_on", <<"gluetun">>))
    ELSE svcs

\* _add_vpn that leaves qbittorrent its ports.
_add_vpn_keeping_ports(cfg, svcs) ==
    IF ~cfg.enable_vpn THEN svcs
    ELSE
      LET s1 == DictSet(svcs, "gluetun", gluetun_service(cfg))
      IN  IF Has(s1, "qbittorrent")
            THEN DictSet(s1, "qbittorrent",
                    Put(Put(s1.vals["qbittorrent"], "network_mode", "service:gluetun"),
                        "depends_on", <<"gluetun">>))
            ELSE s1

\* _add_vpn that appends gluetun to depends_on instead of assigning the list.
_add_vpn_appending_dependency(cfg, svcs) ==
    IF ~cfg.enable_vpn THEN svcs
    ELSE
      LET s1 == DictSet(svcs, "gluetun", gluetun_service(cfg))
      IN  IF Has(s1, "qbittorrent")
            THEN LET qb == s1.vals["qbittorrent"]
                     deps == IF "depends_on" \in DOMAIN qb THEN qb.depends_on ELSE <<>>
                 IN  DictSet(s1, "qbittorrent",
                        Put(Put(Pop(qb, "ports"), "network_mode", "service:gluetun"),
                            "depends_on", Append(deps, "gluetun")))
            ELSE s1

\* _add_vpn that does not test whether qbittorrent is in the graph
\* (setdefault("qbittorrent", {}) in place of the membership test).
_add_vpn_unguarded(cfg, svcs) ==
    IF ~cfg.enable_vpn THEN svcs
    ELSE
      LET s1 == DictSet(svcs, "gluetun", gluetun_service(cfg))
          qb == IF Has(s1, "qbittorrent") THEN s1.vals["qbittorrent"] ELSE <<>>
      IN  DictSet(s1, "qbittorrent",
             Put(Put(Pop(qb, "ports"), "network_mode", "service:gluetun"),
                 "depends_on", <<"gluetun">>))

_add_vpn(cfg, svcs) ==
    IF ~cfg.enable_vpn THEN svcs
    ELSE
      LET s1 == DictSet(svcs, "gluetun", gluetun_service(cfg))
      IN  IF Has(s1, "qbittorrent")
            THEN DictSet(s1, "qbittorrent",
                    Put(Put(Pop(s1.vals["qbittorrent"], "ports"),
                            "network_mode", "service:gluetun"),
                        "depends_on", <<"gluetun">>))
            ELSE s1

\* _configure_transcoding whose intel branch passes the device through to every
\* service that already has a devices list, as well as to the media server.
_configure_transcoding_every_devices_list(cfg, svcs) ==
    LET server == cfg.media_server
    IN  IF ~cfg.enable_transcoding THEN svcs
        ELSE IF ~Has(svcs, server) THEN svcs
        ELSE IF cfg.transcoding_type = "nvidia"
          THEN LET spec == svcs.vals[server]
                   e1 == Put(spec.environment, "NVIDIA_VISIBLE_DEVICES", "all")
                   e2 == IF server = "jellyfin"
                           THEN Put(e1, "NVIDIA_DRIVER_CAPABILITIES", "all")
                           ELSE e1
               IN  DictSet(svcs, server, Put(Put(spec, "runtime", "nvidia"), "environment", e2))
        ELSE IF cfg.transcoding_type = "intel"
          THEN [keys |-> svcs.keys,
                vals |-> [n \in Range(svcs.keys) |->
                            LET spec == svcs.vals[n]
                                d0 == IF "devices" \notin DOMAIN spec THEN <<>> ELSE spec.devices
                            IN  IF n = server \/ "devices" \in DOMAIN spec
                                  THEN Put(spec, "devices", Append(d0, "/dev/dri:/dev/dri"))
                                  ELSE spec]]
        ELSE svcs

\* _configure_transcoding whose intel branch assigns a fresh devices list
\* instead of appending to the one the service has.
_configure_transcoding_replacing_devices(cfg, svcs) ==
    LET server == cfg.media_server
    IN  IF ~cfg.enable_transcoding THEN svcs
        ELSE IF ~Has(svcs, server) THEN svcs
        ELSE IF cfg.transcoding_type = "nvidia"
          THEN LET spec == svcs.vals[server]
                   e1 == Put(spec.environment, "NVIDIA_VISIBLE_DEVICES", "all")
                   e2 == IF server = "jellyfin"
                           THEN Put(e1, "NVIDIA_DRIVER_CAPABILITIES", "all")
                           ELSE e1
               IN  DictSet(svcs, server, Put(Put(spec, "runtime", "nvidia"), "environment", e2))
        ELSE IF cfg.transcoding_type = "intel"
          THEN DictSet(svcs, server,
                       Put(svcs.vals[server], "devices", <<"/dev/dri:/dev/dri">>))
        ELSE svcs

_configure_transcoding(cfg, svcs) ==
    LET server == cfg.media_server
    IN  IF ~cfg.enable_transcoding THEN svcs
        ELSE IF ~Has(svcs, server) THEN svcs
        ELSE IF cfg.transcoding_type = "nvidia"
          THEN LET spec == svcs.vals[server]
                   e1 == Put(spec.environment, "NVIDIA_VISIBLE_DEVICES", "all")
                   e2 == IF server = "jellyfin"
                           THEN Put(e1, "NVIDIA_DRIVER_CAPABILITIES", "all")
                           ELSE e1
               IN  DictSet(svcs, server, Put(Put(spec, "runtime", "nvidia"), "environment", e2))
        ELSE IF cfg.transcoding_type = "intel"
          THEN LET spec == svcs.vals[server]
                   d0 == IF "devices" \notin DOMAIN spec THEN <<>> ELSE spec.devices
               IN  DictSet(svcs, server, Put(spec, "devices", Append(d0, "/dev/dri:/dev/dri")))
        ELSE svcs

\* The rules of generate(), in the order the method calls them.
\* The rules with the dashboard rule ahead of the gateway rule.
rule_order_dashboard_before_gateway ==
    <<"_add_media_server", "_add_arr_suite", "_add_downloader", "_add_dashboard",
      "_add_gateway", "_add_watchtower", "_add_extra_services", "_add_vpn",
      "_configure_transcoding">>

\* The rules with the tunnel overlay moved ahead of the downloader rule.
rule_order_vpn_before_downloader ==
    <<"_add_media_server", "_add_arr_suite", "_add_vpn", "_add_downloader",
      "_add_gateway", "_add_dashboard", "_add_watchtower", "_add_extra_services",
      "_configure_transcoding">>

rule_order ==
    <<"_add_media_server", "_add_arr_suite", "_add_downloader", "_add_gateway",
      "_add_dashboard", "_add_watchtower", "_add_extra_services", "_add_vpn",
      "_configure_transcoding">>

\* (s binds the graph the rule starts from, so that it is evaluated once.)
apply_rule(rule, cfg, svcs) ==
    CHOOSE r \in {
        CASE rule = "_add_media_server" -> _add_media_server(cfg, s)
          [] rule = "_add_arr_suite" -> _add_arr_suite(cfg, s)
          [] rule = "_add_downloader" -> _add_downloader(cfg, s)
          [] rule = "_add_gateway" -> _add_gateway(cfg, s)
          [] rule = "_add_dashboard" -> _add_dashboard(cfg, s)
          [] rule = "_add_watchtower" -> _add_watchtower(cfg, s)
          [] rule = "_add_extra_services" -> _add_extra_services(cfg, s)
          [] rule = "_add_vpn" -> _add_vpn(cfg, s)
          [] rule = "_configure_transcoding" -> _configure_transcoding(cfg, s)
        : s \in {svcs}} : TRUE

RECURSIVE run_rules(_, _, _)
run_rules(cfg, svcs, i) ==
    IF i > Len(rule_order) THEN svcs
    ELSE run_rules(cfg, apply_rule(rule_order[i], cfg, svcs), i + 1)

\* self.services when generate() is about to call the given rule: the rules
\* from position i on, up to that rule, applied in order.
RECURSIVE run_rules_until(_, _, _, _)
run_rules_until(cfg, svcs, i, rule) ==
    IF i > Len(rule_order) \/ rule_order[i] = rule THEN svcs
    ELSE run_rules_until(cfg, apply_rule(rule_order[i], cfg, svcs), i + 1, rule)

graph_before(rule, cfg) == run_rules_until(cfg, EmptyDict, 1, rule)

\* generate() as one call on a fresh ComposeGenerator: the exception it raises
\* ("" when none) and self.services when it returns or raises.
generate(cfg) ==
    IF Raises_add_media_server(cfg)
      THEN [raised |-> "KeyError", services |-> EmptyDict]
      ELSE [raised |-> "", services |-> run_rules(cfg, EmptyDict, 1)]

\* The dict generate() returns.
compose_config(svcs) ==
    [version |-> "3.8",
     services |-> svcs,
     networks |-> [default |-> [name |-> "astro-network"]]]

----------------------------------------------------------------------------
\* str.title(): the first letter of every run of letters in upper case, the
\* other letters in lower case.

Lower == "abcdefghijklmnopqrstuvwxyz"
Upper == "ABCDEFGHIJKLMNOPQRSTUVWXYZ"

Ch(s, i) == SubSeq(s, i, i)

IsLower(c) == \E k \in 1..Len(Lower) : Ch(Lower, k) = c
IsUpper(c) == \E k \in 1..Len(Upper) : Ch(Upper, k) = c
IsCased(c) == IsLower(c) \/ IsUpper(c)
ToUpper(c) == IF IsLower(c) THEN Ch(Upper, CHOOSE k \in 1..Len(Lower) : Ch(Lower, k) = c) ELSE c
ToLower(c) == IF IsUpper(c) THEN Ch(Lower, CHOOSE k \in 1..Len(Upper) : Ch(Upper, k) = c) ELSE c

RECURSIVE title_from(_, _, _)
title_from(s, i, prevCased) ==
    IF i > Len(s) THEN ""
    ELSE (IF prevCased THEN ToLower(Ch(s, i)) ELSE ToUpper(Ch(s, i)))
         \o title_from(s, i + 1, IsCased(Ch(s, i)))

title(s) == title_from(s, 1, FALSE)

----------------------------------------------------------------------------
\* ComposeGenerator._build_homepage_services.  The result is a list of
\* one-key dicts {category: [entries]}; an entry {name: {...}} is modelled as
\* the record of its fields plus its name.

HOMEPAGE_HOST == "http://{{HOMEPAGE_VAR_SERVER_IP}}:"

link(name, icon, port, description, container) ==
    [name |-> name, icon |-> icon, href |-> HOMEPAGE_HOST \o port,
     description |-> description, container |-> container, server |-> "my-docker"]

\* {"jellyfin": 8096, "plex": 32400, "emby": 8096}.get(server, 8096)
homepage_media_port(server) ==
    IF server = "plex" THEN "32400" ELSE "8096"

\* client of the Downloads section.
homepage_usenet_client(cfg) ==
    IF cfg.downloader = "sabnzbd" THEN "sabnzbd" ELSE "nzbget"

_build_homepage_services(cfg) ==
    LET extras == Range(cfg.extra_services)
        server == cfg.media_server
        media_services ==
            << link(title(server), server \o ".png", homepage_media_port(server),
                    "Media Server", server) >>
            \o (IF "overseerr" \in extras
                  THEN << link("Overseerr", "overseerr.png", "5055", "Media Requests", "overseerr") >>
                  ELSE <<>>)
            \o (IF "tautulli" \in extras
                  THEN << link("Tautulli", "tautulli.png", "8181", "Plex Statistics", "tautulli") >>
                  ELSE <<>>)
        client == homepage_usenet_client(cfg)
        port == IF client = "sabnzbd" THEN "8080" ELSE "6789"
        download_services ==
            (IF cfg.enable_torrents
               THEN << link("qBittorrent", "qbittorrent.png", "8080", "Torrent Client", "qbittorrent") >>
               ELSE <<>>)
            \o (IF cfg.enable_usenet
                  THEN << link(title(client), client \o ".png", port, "Usenet Client", client) >>
                  ELSE <<>>)
        management_services ==
            << link("Radarr", "radarr.png", "7878", "Movies", "radarr"),
               link("Sonarr", "sonarr.png", "8989", "TV Shows", "sonarr"),
               link("Lidarr", "lidarr.png", "8686", "Music", "lidarr"),
               link("Readarr", "readarr.png", "8787", "Books", "readarr"),
               link("Prowlarr", "prowlarr.png", "9696", "Indexers", "prowlarr") >>
            \o (IF "bazarr" \in extras
                  THEN << link("Bazarr", "bazarr.png", "6767", "Subtitles", "bazarr") >>
                  ELSE <<>>)
        system_services ==
            (IF "portainer" \in extras
               THEN << link("Portainer", "portainer.png", "9000", "Container Management", "portainer") >>
               ELSE <<>>)
            \o (IF cfg.gateway = "traefik"
                  THEN << link("Traefik", "traefik.png", "8081", "Reverse Proxy", "traefik") >>
                ELSE IF cfg.gateway = "nginx-proxy-manager"
                  THEN << link("NPM", "nginx-proxy-manager.png", "81", "Reverse Proxy", "nginx-proxy-manager") >>
                ELSE <<>>)
    IN  << [category |-> "Media", entries |-> media_services] >>
        \o (IF download_services # <<>>
              THEN << [category |-> "Downloads", entries |-> download_services] >>
              ELSE <<>>)
        \o << [category |-> "Management", entries |-> management_services] >>
        \o (IF system_services # <<>>
              THEN << [category |-> "System", entries |-> system_services] >>
              ELSE <<>>)

----------------------------------------------------------------------------
\* ComposeGenerator run on its own: generate() one rule at a time from any
\* UserConfig a caller may construct, then _build_homepage_services().

media_server_choices == <<"jellyfin", "plex", "emby">>
downloader_choices == <<"qbittorrent", "sabnzbd", "nzbget">>
gateway_choices == <<"traefik", "nginx-proxy-manager">>
dashboard_choices == <<"homepage", "heimdall">>
extra_choices == <<"bazarr", "overseerr", "tautulli", "portainer">>
transcoding_types == {"nvidia", "intel"}

\* The sublist of a checklist's tags that a selection keeps, in list order.
Selected(tags, S) == SelectSeq(tags, LAMBDA t : t \in S)

\* One value outside the known set for every enumerated field.
UnknownValue ==
    [media_server |-> "kodi", downloader |-> "transmission", gateway |-> "caddy",
     dashboard |-> "organizr", transcoding_type |-> "amd"]

EnumFields == DOMAIN UnknownValue

KnownValues ==
    [media_server |-> Range(media_server_choices),
     downloader |-> Range(downloader_choices),
     gateway |-> Range(gateway_choices),
     dashboard |-> Range(dashboard_choices),
     transcoding_type |-> transcoding_types \cup {""}]

UnknownFields(cfg) == {f \in EnumFields : cfg[f] \notin KnownValues[f]}

ValidConfig(cfg) == UnknownFields(cfg) = {}

GenConfigs ==
    {c \in [media_server : KnownValues.media_server \cup {UnknownValue.media_server},
            downloader : KnownValues.downloader \cup {UnknownValue.downloader},
            gateway : KnownValues.gateway \cup {UnknownValue.gateway},
            dashboard : KnownValues.dashboard \cup {UnknownValue.dashboard},
            timezone : {DEFAULT_TZ}, puid : {DEFAULT_PUID}, pgid : {DEFAULT_PGID},
            enable_usenet : BOOLEAN, enable_torrents : BOOLEAN,
            enable_vpn : BOOLEAN, vpn_provider : {"nordvpn"},
            vpn_username : {"user"}, vpn_password : {"secret"},
            extra_services : {Selected(extra_choices, S) :
                                S \in {T \in SUBSET Range(extra_choices) : Cardinality(T) <= MaxExtras}},
            enable_transcoding : BOOLEAN,
            transcoding_type : KnownValues.transcoding_type \cup {UnknownValue.transcoding_type}] :
        /\ Cardinality(UnknownFields(c)) <= MaxUnknownFields
        /\ c.enable_transcoding <=> c.transcoding_type # ""
        /\ c.enable_vpn => c.vpn_provider # ""}

WizIdle ==
    /\ pc = "idle" /\ step = 0 /\ executed = <<>> /\ results = <<>> /\ cancel = ""
    /\ stages = <<>> /\ shown = <<>> /\ ret = None /\ dirs = <<>>
    /\ manifest = None /\ deployed = None
    /\ dialog_error = "" /\ printed = <<>>

InitGen ==
    /\ config \in GenConfigs
    /\ services = EmptyDict
    /\ gpc = rule_order[1]
    /\ err = ""
    /\ homepage = None
    /\ WizIdle

\* Where generate() stands after the rule at position i has returned.
after_rule(i) == IF i = Len(rule_order) THEN "return" ELSE rule_order[i + 1]

RuleIndex(rule) == CHOOSE i \in 1..Len(rule_order) : rule_order[i] = rule

RuleStep(rule) ==
    /\ gpc = rule
    /\ services' = apply_rule(rule, config, services)
    /\ gpc' = after_rule(RuleIndex(rule))
    /\ UNCHANGED <<config, err, homepage, wizVars>>

Gen_add_media_server ==
    /\ gpc = "_add_media_server"
    /\ IF Raises_add_media_server(config)
         THEN /\ err' = "KeyError"
              /\ gpc' = "raised"
              /\ UNCHANGED services
         ELSE /\ services' = _add_media_server(config, services)
              /\ gpc' = after_rule(RuleIndex("_add_media_server"))
              /\ UNCHANGED err
    /\ UNCHANGED <<config, homepage, wizVars>>

Gen_add_arr_suite == RuleStep("_add_arr_suite")
Gen_add_downloader == RuleStep("_add_downloader")
Gen_add_gateway == RuleStep("_add_gateway")
Gen_add_dashboard == RuleStep("_add_dashboard")
Gen_add_watchtower == RuleStep("_add_watchtower")
Gen_add_extra_services == RuleStep("_add_extra_services")
Gen_add_vpn == RuleStep("_add_vpn")
Gen_configure_transcoding == RuleStep("_configure_transcoding")

\* The return statement of generate().
GenReturn ==
    /\ gpc = "return"
    /\ gpc' = "returned"
    /\ UNCHANGED <<config, services, err, homepage, wizVars>>

\* A call of _build_homepage_services() on the generator that ran generate().
GenBuildHomepage ==
    /\ gpc = "returned"
    /\ homepage = None
    /\ homepage' = Some(_build_homepage_services(config))
    /\ UNCHANGED <<config, genVars, wizVars>>

NextGen ==
    \/ Gen_add_media_server
    \/ Gen_add_arr_suite
    \/ Gen_add_downloader
    \/ Gen_add_gateway
    \/ Gen_add_dashboard
    \/ Gen_add_watchtower
    \/ Gen_add_extra_services
    \/ Gen_add_vpn
    \/ Gen_configure_transcoding
    \/ GenReturn
    \/ GenBuildHomepage

SpecGen == InitGen /\ [][NextGen]_vars

----------------------------------------------------------------------------
\* WhiptailUI.  When a dialog returns, its reply is the pair (returncode,
\* stderr text) that _run hands back.

\* whiptail exit codes: 0 = OK/Yes, 1 = Cancel/No, 255 = Esc.
Codes == {0, 1, 255}

\* The ways _run raises instead of handing back a reply: whiptail is not
\* found (FileNotFoundError, which _run turns into a printed line and
\* sys.exit(1)), subprocess.run raises another OSError that _run does not
\* catch (PermissionError: whiptail is on PATH but not executable), or what
\* whiptail wrote on stderr is not UTF-8 (result.stderr.decode()).
Failures == {"SystemExit", "PermissionError", "UnicodeDecodeError"}

MSG_NO_WHIPTAIL == "Error: whiptail not found. Please install it."

\* What a call of msgbox does: it returns, or _run raises.
BoxOutcomes == {"ok"} \cup Failures

\* whiptail displayed the box unless it could not be started: of the
\* failures only the decoding of its output comes after it ran.
Displayed(text, box) ==
    IF box \in {"ok", "UnicodeDecodeError"} THEN <<text>> ELSE <<>>

yesno(code) == code = 0

menu(code, output) == IF code = 0 THEN Some(output) ELSE None

inputbox(code, output) == IF code = 0 THEN Some(output) ELSE None

\* str.split(sep): the pieces between the non-overlapping occurrences of sep,
\* scanning from the left; start is where the current piece begins.
RECURSIVE split_from(_, _, _, _)
split_from(s, sep, i, start) ==
    IF i + Len(sep) - 1 > Len(s) THEN << SubSeq(s, start, Len(s)) >>
    ELSE IF SubSeq(s, i, i + Len(sep) - 1) = sep
      THEN << SubSeq(s, start, i - 1) >> \o split_from(s, sep, i + Len(sep), i + Len(sep))
    ELSE split_from(s, sep, i + 1, start)

split(s, sep) == split_from(s, sep, 1, 1)

\* str.strip(c) for a single character c.
RECURSIVE lstrip(_, _)
lstrip(s, c) == IF Len(s) > 0 /\ Ch(s, 1) = c THEN lstrip(SubSeq(s, 2, Len(s)), c) ELSE s

RECURSIVE rstrip(_, _)
rstrip(s, c) == IF Len(s) > 0 /\ Ch(s, Len(s)) = c THEN rstrip(SubSeq(s, 1, Len(s) - 1), c) ELSE s

strip(s, c) == rstrip(lstrip(s, c), c)

Quote == "\""

\* [item.strip('"') for item in output.split('" "') if item.strip('"')]
checklist_items(output) ==
    LET pieces == split(output, Quote \o " " \o Quote)
        stripped == [i \in 1..Len(pieces) |-> strip(pieces[i], Quote)]
    IN  SelectSeq(stripped, LAMBDA item : item # "")

checklist(code, output) == IF code # 0 THEN <<>> ELSE checklist_items(output)

\* What whiptail prints for a confirmed checklist: the ticked tags, each in
\* double quotes, separated by one space.
RECURSIVE whiptail_quoted(_)
whiptail_quoted(tags) ==
    IF tags = <<>> THEN ""
    ELSE Quote \o Head(tags) \o Quote
         \o (IF Len(tags) > 1 THEN " " ELSE "") \o whiptail_quoted(Tail(tags))

\* The text a checklist dialog leaves on stderr: nothing when it is cancelled.
checklist_reply(code, tags) == IF code = 0 THEN whiptail_quoted(tags) ELSE ""

----------------------------------------------------------------------------
\* SetupWizard steps: (config, dialog results) -> [ok, config], ok being the
\* bool the step returns.

StepResult(ok, cfg) == [ok |-> ok, config |-> cfg]

show_welcome(cfg, yes) == StepResult(yes, cfg)

select_media_server(cfg, result) ==
    IF Truthy(result)
      THEN StepResult(TRUE, [cfg EXCEPT !.media_server = result[1]])
      ELSE StepResult(FALSE, cfg)

download_method_choices == <<"torrents", "usenet">>

\* result is the list checklist() returned; a list is never None.
select_download_method(cfg, result) ==
    StepResult(TRUE, [cfg EXCEPT !.enable_torrents = "torrents" \in Range(result),
                                 !.enable_usenet = "usenet" \in Range(result)])

\* The menu entries select_downloader offers.
select_downloader_choices(cfg) ==
    <<"qbittorrent">> \o (IF cfg.enable_usenet THEN <<"sabnzbd", "nzbget">> ELSE <<>>)

\* prompted: the menu is shown only when there is more than one entry.
select_downloader_prompts(cfg) == Len(select_downloader_choices(cfg)) # 1

\* select_downloader without the single-entry shortcut: the menu is always
\* shown and its reply decides.
select_downloader_always_prompting(cfg, result) ==
    IF Truthy(result)
      THEN StepResult(TRUE, [cfg EXCEPT !.downloader = result[1]])
      ELSE StepResult(FALSE, cfg)

select_downloader(cfg, result) ==
    IF ~select_downloader_prompts(cfg)
      THEN StepResult(TRUE, [cfg EXCEPT !.downloader = "qbittorrent"])
    ELSE IF Truthy(result)
      THEN StepResult(TRUE, [cfg EXCEPT !.downloader = result[1]])
    ELSE StepResult(FALSE, cfg)

\* select_gateway that clears the gateway when the menu is cancelled.
select_gateway_clearing_on_cancel(cfg, result) ==
    IF Truthy(result)
      THEN StepResult(TRUE, [cfg EXCEPT !.gateway = result[1]])
      ELSE StepResult(FALSE, [cfg EXCEPT !.gateway = ""])

select_gateway(cfg, result) ==
    IF Truthy(result)
      THEN StepResult(TRUE, [cfg EXCEPT !.gateway = result[1]])
      ELSE StepResult(FALSE, cfg)

select_dashboard(cfg, result) ==
    IF Truthy(result)
      THEN StepResult(TRUE, [cfg EXCEPT !.dashboard = result[1]])
      ELSE StepResult(FALSE, cfg)

configure_timezone(cfg, result) ==
    IF Truthy(result)
      THEN StepResult(TRUE, [cfg EXCEPT !.timezone = result[1]])
      ELSE StepResult(FALSE, cfg)

select_extra_services(cfg, result) ==
    StepResult(TRUE, [cfg EXCEPT !.extra_services = result])

vpn_providers ==
    <<"nordvpn", "expressvpn", "private internet access", "surfshark",
      "mullvad", "protonvpn", "windscribe", "custom">>

\* configure_vpn that leaves enable_vpn set when the credentials dialogs are
\* left empty or cancelled.
configure_vpn_keeping_enabled(cfg, yes, provider, username, password) ==
    IF ~cfg.enable_torrents THEN StepResult(TRUE, cfg)
    ELSE IF ~yes THEN StepResult(TRUE, [cfg EXCEPT !.enable_vpn = FALSE])
    ELSE IF ~Truthy(provider) THEN StepResult(TRUE, [cfg EXCEPT !.enable_vpn = FALSE])
    ELSE IF ~Truthy(username)
      THEN StepResult(TRUE, [cfg EXCEPT !.enable_vpn = TRUE, !.vpn_provider = provider[1]])
    ELSE IF ~Truthy(password)
      THEN StepResult(TRUE, [cfg EXCEPT !.enable_vpn = TRUE, !.vpn_provider = provider[1],
                                        !.vpn_username = username[1]])
    ELSE StepResult(TRUE, [cfg EXCEPT !.enable_vpn = TRUE, !.vpn_provider = provider[1],
                                      !.vpn_username = username[1],
                                      !.vpn_password = password[1]])

\* yes: the yes/no answer; provider, username, password: what the menu and
\* the two input boxes return (a later dialog is only read when it is shown).
configure_vpn(cfg, yes, provider, username, password) ==
    IF ~cfg.enable_torrents THEN StepResult(TRUE, cfg)
    ELSE IF ~yes THEN StepResult(TRUE, [cfg EXCEPT !.enable_vpn = FALSE])
    ELSE IF ~Truthy(provider) THEN StepResult(TRUE, [cfg EXCEPT !.enable_vpn = FALSE])
    ELSE IF ~Truthy(username)
      THEN StepResult(TRUE, [cfg EXCEPT !.enable_vpn = FALSE, !.vpn_provider = provider[1]])
    ELSE IF ~Truthy(password)
      THEN StepResult(TRUE, [cfg EXCEPT !.enable_vpn = FALSE, !.vpn_provider = provider[1],
                                        !.vpn_username = username[1]])
    ELSE StepResult(TRUE, [cfg EXCEPT !.enable_vpn = TRUE, !.vpn_provider = provider[1],
                                      !.vpn_username = username[1],
                                      !.vpn_password = password[1]])

\* The options list detect_hardware_transcoding builds.
transcoding_options(nvidia_available, intel_available) ==
    (IF nvidia_available THEN <<"nvidia">> ELSE <<>>)
    \o (IF intel_available THEN <<"intel">> ELSE <<>>)
    \o <<"none">>

\* result is what the menu returns; it is read only when the menu is shown.
detect_hardware_transcoding(cfg, nvidia_available, intel_available, result) ==
    IF ~nvidia_available /\ ~intel_available THEN StepResult(TRUE, cfg)
    ELSE
      LET options == transcoding_options(nvidia_available, intel_available)
          choice == IF Len(options) = 1 THEN Some(options[1]) ELSE result
      IN  IF Truthy(choice) /\ choice[1] # "none"
            THEN StepResult(TRUE, [cfg EXCEPT !.enable_transcoding = TRUE,
                                              !.transcoding_type = choice[1]])
            ELSE StepResult(TRUE, [cfg EXCEPT !.enable_transcoding = FALSE])

show_summary(cfg, yes) == StepResult(yes, cfg)

----------------------------------------------------------------------------
\* SetupWizard.run().

steps ==
    <<"show_welcome", "select_media_server", "select_download_method",
      "select_downloader", "select_gateway", "select_dashboard",
      "select_extra_services", "configure_vpn", "detect_hardware_transcoding",
      "configure_timezone", "show_summary">>

MSG_CANCELLED == "Setup cancelled."
MSG_FAILED == "Setup failed:"
MSG_DEPLOYING == "Deploying services..."
MSG_DEPLOY_EXCEPTION == "Deployment failed:"
MSG_DEPLOY_ERRORS == "Deployment encountered errors."
MSG_COMPLETE == "Setup Complete!"

\* The values run() returns.
RET_CANCELLED == 1
RET_DEPLOY_ERRORS == 1
RET_EXCEPTION == 1
RET_SUCCESS == 0

\* Where run() stands after a piece of its code: its position, the value it
\* returned, the message boxes whiptail displayed meanwhile, and the
\* exception a dialog raised ("" when none).
Continue(p) == [pc |-> p, ret |-> None, msgs |-> <<>>, error |-> ""]
Return(r) == [pc |-> "done", ret |-> Some(r), msgs |-> <<>>, error |-> ""]

\* run() is left by the exception of a dialog: it returns nothing.
Raise(kind) == [pc |-> "raised", ret |-> None, msgs |-> <<>>, error |-> kind]

\* ui.msgbox(text) outside the try block, followed by rest.
msgbox_then(text, box, rest) ==
    IF box = "ok" THEN [rest EXCEPT !.msgs = <<text>> \o @]
    ELSE [Raise(box) EXCEPT !.msgs = Displayed(text, box)]

\* A loop that shows the cancelled message but forgets to return.
run_loop_without_return(i, ok, box) ==
    [end |-> [Continue(IF i = Len(steps) THEN "create_directories" ELSE "steps")
                EXCEPT !.msgs = IF ok THEN <<>> ELSE <<MSG_CANCELLED>>],
     step |-> i + 1]

\* A loop that asks the aborted step again instead of returning.
run_loop_retrying(i, ok, box) ==
    IF ~ok THEN [end |-> Continue("steps"), step |-> i]
    ELSE [end |-> Continue(IF i = Len(steps) THEN "create_directories" ELSE "steps"),
          step |-> i + 1]

\* The for loop of run() after the step at position i returned ok: where run()
\* goes next, what it returns and which message box it shows (box: what that
\* message box does).
run_loop(i, ok, box) ==
    IF ~ok
      THEN [end |-> msgbox_then(MSG_CANCELLED, box, Return(RET_CANCELLED)), step |-> i]
    ELSE IF i = Len(steps)
      THEN [end |-> Continue("create_directories"), step |-> i + 1]
    ELSE [end |-> Continue("steps"), step |-> i + 1]

\* An except clause that reports the failure and lets run() go on to deploy.
run_except_then_deploy(box) ==
    [Continue("deploy_stack") EXCEPT !.msgs = <<MSG_FAILED>>]

\* An except clause that reports the failure and starts the setup stages
\* again instead of returning.
run_except_retrying(box) ==
    [Continue("create_directories") EXCEPT !.msgs = <<MSG_FAILED>>]

\* The except clause of run(): the message box, then return 1.  The box is
\* shown outside the try block, so its exception leaves run().
run_except(box) == msgbox_then(MSG_FAILED, box, Return(RET_EXCEPTION))

\* An exception raised inside the try block of run(): `except Exception`
\* catches everything but SystemExit.
try_raises(kind, box) == IF kind = "SystemExit" THEN Raise(kind) ELSE run_except(box)

\* ui.msgbox(text) inside the try block, followed by rest; hbox is what the
\* message box of the except clause does when it comes to that.
msgbox_in_try(text, box, hbox, rest) ==
    IF box = "ok" THEN [rest EXCEPT !.msgs = <<text>> \o @]
    ELSE LET e == try_raises(box, hbox)
         IN  [e EXCEPT !.msgs = Displayed(text, box) \o @,
                       !.error = IF @ = "" THEN box ELSE @]

Init ==
    /\ config = UserConfig
    /\ services = EmptyDict
    /\ gpc = "idle"
    /\ err = ""
    /\ homepage = None
    /\ pc = "steps"
    /\ step = 1
    /\ executed = <<>>
    /\ results = <<>>
    /\ cancel = ""
    /\ stages = <<>>
    /\ shown = <<>>
    /\ ret = None
    /\ dirs = <<>>
    /\ manifest = None
    /\ deployed = None
    /\ dialog_error = ""
    /\ printed = <<>>

AtStep(name) == pc = "steps" /\ step \in 1..Len(steps) /\ steps[step] = name

\* run() arrives at e: _run prints its line before sys.exit(1).
End(e) ==
    /\ pc' = e.pc
    /\ ret' = e.ret
    /\ shown' = shown \o e.msgs
    /\ dialog_error' = e.error
    /\ printed' = printed \o (IF e.error = "SystemExit" THEN <<MSG_NO_WHIPTAIL>> ELSE <<>>)

\* run() calls the step and acts on the bool it returns.
CallStep(name, r, c) ==
    /\ config' = r.config
    /\ cancel' = c
    /\ executed' = Append(executed, name)
    /\ results' = Append(results, r.ok)
    /\ \E box \in BoxOutcomes :
          LET n == run_loop(step, r.ok, box)
          IN  /\ step' = n.step
              /\ End(n.end)
    /\ UNCHANGED <<genVars, homepage, stages, dirs, manifest, deployed>>

\* run() calls the step and a dialog of the step raises: the step returns
\* nothing and, the loop being outside the try block, the exception leaves
\* run().  cfg is the configuration at that moment.
StepRaises(name, cfg, kind) ==
    /\ config' = cfg
    /\ cancel' = ""
    /\ executed' = Append(executed, name)
    /\ UNCHANGED <<results, step>>
    /\ End(Raise(kind))
    /\ UNCHANGED <<genVars, homepage, stages, dirs, manifest, deployed>>

\* Inputs of the dialogs.
MenuReplies(tags) == {menu(code, IF code = 0 THEN t ELSE "") : code \in Codes, t \in Range(tags)}
InputReplies(texts) == {inputbox(code, IF code = 0 THEN t ELSE "") : code \in Codes, t \in texts}
Selections(tags, max) == {Selected(tags, S) : S \in {T \in SUBSET Range(tags) : Cardinality(T) <= max}}

TimezoneInputs == {"", "UTC"}
UsernameInputs == {"", "user"}
PasswordInputs == {"", "secret"}

\* menu() and inputbox() return None exactly when the dialog's code is not 0.
Cancelled(kind, result) == IF result = None THEN kind ELSE ""

\* The dialog of configure_vpn that was cancelled, among those it showed.
configure_vpn_cancel(cfg, yes, provider, username, password) ==
    IF ~cfg.enable_torrents \/ ~yes THEN ""
    ELSE IF ~Truthy(provider) THEN Cancelled("menu", provider)
    ELSE IF ~Truthy(username) THEN Cancelled("inputbox", username)
    ELSE Cancelled("inputbox", password)

\* How many dialogs configure_vpn shows, given what they reply.
configure_vpn_dialogs(cfg, yes, provider, username) ==
    IF ~cfg.enable_torrents THEN 0
    ELSE IF ~yes THEN 1
    ELSE IF ~Truthy(provider) THEN 2
    ELSE IF ~Truthy(username) THEN 3
    ELSE 4

\* The configuration when configure_vpn calls its dialog number at (yes/no,
\* provider menu, username box, password box).
configure_vpn_at(cfg, at, provider, username) ==
    IF at = 1 THEN cfg
    ELSE IF at = 2 THEN [cfg EXCEPT !.enable_vpn = TRUE]
    ELSE IF at = 3 THEN [cfg EXCEPT !.enable_vpn = TRUE, !.vpn_provider = provider[1]]
    ELSE [cfg EXCEPT !.enable_vpn = TRUE, !.vpn_provider = provider[1],
                     !.vpn_username = username[1]]

\* The menu of detect_hardware_transcoding, shown when the options list has
\* more than one entry.
detect_hardware_transcoding_cancel(nvidia_available, intel_available, result) ==
    IF ~nvidia_available /\ ~intel_available THEN ""
    ELSE IF Len(transcoding_options(nvidia_available, intel_available)) = 1 THEN ""
    ELSE Cancelled("menu", result)

Step_show_welcome ==
    /\ AtStep("show_welcome")
    /\ \/ \E code \in Codes : CallStep("show_welcome", show_welcome(config, yesno(code)), "")
       \/ \E kind \in Failures : StepRaises("show_welcome", config, kind)

Step_select_media_server ==
    /\ AtStep("select_media_server")
    /\ \/ \E result \in MenuReplies(media_server_choices) :
              CallStep("select_media_server", select_media_server(config, result),
                       Cancelled("menu", result))
       \/ \E kind \in Failures : StepRaises("select_media_server", config, kind)

Step_select_download_method ==
    /\ AtStep("select_download_method")
    /\ \/ \E code \in Codes, ticked \in Selections(download_method_choices, Len(download_method_choices)) :
              CallStep("select_download_method",
                       select_download_method(config, checklist(code, checklist_reply(code, ticked))),
                       IF code # 0 THEN "checklist" ELSE "")
       \/ \E kind \in Failures : StepRaises("select_download_method", config, kind)

Step_select_downloader ==
    /\ AtStep("select_downloader")
    /\ \/ \E result \in MenuReplies(select_downloader_choices(config)) :
              CallStep("select_downloader", select_downloader(config, result),
                       IF select_downloader_prompts(config) THEN Cancelled("menu", result) ELSE "")
       \/ /\ select_downloader_prompts(config)
          /\ \E kind \in Failures : StepRaises("select_downloader", config, kind)

Step_select_gateway ==
    /\ AtStep("select_gateway")
    /\ \/ \E result \in MenuReplies(gateway_choices) :
              CallStep("select_gateway", select_gateway(config, result), Cancelled("menu", result))
       \/ \E kind \in Failures : StepRaises("select_gateway", config, kind)

Step_select_dashboard ==
    /\ AtStep("select_dashboard")
    /\ \/ \E result \in MenuReplies(dashboard_choices) :
              CallStep("select_dashboard", select_dashboard(config, result), Cancelled("menu", result))
       \/ \E kind \in Failures : StepRaises("select_dashboard", config, kind)

Step_select_extra_services ==
    /\ AtStep("select_extra_services")
    /\ \/ \E code \in Codes, ticked \in Selections(extra_choices, MaxExtras) :
              CallStep("select_extra_services",
                       select_extra_services(config, checklist(code, checklist_reply(code, ticked))),
                       IF code # 0 THEN "checklist" ELSE "")
       \/ \E kind \in Failures : StepRaises("select_extra_services", config, kind)

Step_configure_vpn ==
    /\ AtStep("configure_vpn")
    /\ \/ \E code \in Codes,
              provider \in MenuReplies(SubSeq(vpn_providers, 1, MaxProviders)),
              username \in InputReplies(UsernameInputs),
              password \in InputReplies(PasswordInputs) :
              CallStep("configure_vpn",
                       configure_vpn(config, yesno(code), provider, username, password),
                       configure_vpn_cancel(config, yesno(code), provider, username, password))
       \/ \E code \in Codes,
             provider \in MenuReplies(SubSeq(vpn_providers, 1, MaxProviders)),
             username \in InputReplies(UsernameInputs),
             at \in 1..4, kind \in Failures :
             /\ at <= configure_vpn_dialogs(config, yesno(code), provider, username)
             /\ StepRaises("configure_vpn",
                           configure_vpn_at(config, at, provider, username), kind)

Step_detect_hardware_transcoding ==
    /\ AtStep("detect_hardware_transcoding")
    /\ \/ \E nvidia_available \in BOOLEAN, intel_available \in BOOLEAN :
           \E result \in MenuReplies(transcoding_options(nvidia_available, intel_available)) :
              CallStep("detect_hardware_transcoding",
                       detect_hardware_transcoding(config, nvidia_available, intel_available, result),
                       detect_hardware_transcoding_cancel(nvidia_available, intel_available, result))
       \/ \E kind \in Failures : StepRaises("detect_hardware_transcoding", config, kind)

Step_configure_timezone ==
    /\ AtStep("configure_timezone")
    /\ \/ \E result \in InputReplies(TimezoneInputs) :
              CallStep("configure_timezone", configure_timezone(config, result),
                       Cancelled("inputbox", result))
       \/ \E kind \in Failures : StepRaises("configure_timezone", config, kind)

Step_show_summary ==
    /\ AtStep("show_summary")
    /\ \/ \E code \in Codes : CallStep("show_summary", show_summary(config, yesno(code)), "")
       \/ \E kind \in Failures : StepRaises("show_summary", config, kind)

\* An exception other than a dialog's is raised inside the try block of
\* run(): the except clause reports it (box: what its message box does).
Except(box) == End(run_except(box))

\* The dirs list of create_directories.
create_directories_dirs ==
    << CONFIG_DIR, MEDIA_DIR \o "/movies", MEDIA_DIR \o "/tv", MEDIA_DIR \o "/music",
       MEDIA_DIR \o "/books", ASTRO_DIR \o "/torrents", ASTRO_DIR \o "/usenet" >>

\* create_directories that swallows the error of a directory and reports
\* nothing, so that run() goes on with part of the tree missing.
Stage_create_directories_swallowing_errors ==
    /\ pc = "create_directories"
    /\ stages' = Append(stages, "create_directories")
    /\ \E made \in 0..Len(create_directories_dirs) :
          dirs' = SubSeq(create_directories_dirs, 1, made)
    /\ End(Continue("generate_compose"))
    /\ UNCHANGED <<config, genVars, homepage, step, executed, results, cancel, manifest, deployed>>

\* mkdir or chown may raise at any directory: made is how many directories
\* exist when the loop ends, raised whether it ended by an exception.
Stage_create_directories ==
    /\ pc = "create_directories"
    /\ stages' = Append(stages, "create_directories")
    /\ \E made \in 0..Len(create_directories_dirs), raised \in BOOLEAN :
          /\ made < Len(create_directories_dirs) => raised
          /\ dirs' = SubSeq(create_directories_dirs, 1, made)
          /\ IF raised
               THEN \E box \in BoxOutcomes : Except(box)
               ELSE End(Continue("generate_compose"))
    /\ UNCHANGED <<config, genVars, homepage, step, executed, results, cancel, manifest, deployed>>

\* generate_compose: a fresh ComposeGenerator, generate(), then the write of
\* COMPOSE_FILE, which may raise.
Stage_generate_compose ==
    /\ pc = "generate_compose"
    /\ stages' = Append(stages, "generate_compose")
    /\ LET g == generate(config)
       IN  /\ services' = g.services
           /\ err' = g.raised
           /\ gpc' = IF g.raised # "" THEN "raised" ELSE "returned"
           /\ \E written \in BOOLEAN :
                 IF g.raised = "" /\ written
                   THEN /\ manifest' = Some(compose_config(g.services))
                        /\ End(Continue("generate_homepage_config"))
                   ELSE /\ UNCHANGED manifest
                        /\ \E box \in BoxOutcomes : Except(box)
    /\ UNCHANGED <<config, homepage, step, executed, results, cancel, dirs, deployed>>

\* generate_homepage_config: nothing for another dashboard; otherwise
\* services.yaml is written first and any of the writes may raise.
Stage_generate_homepage_config ==
    /\ pc = "generate_homepage_config"
    /\ stages' = Append(stages, "generate_homepage_config")
    /\ IF config.dashboard # "homepage"
         THEN /\ End(Continue("deploy_stack"))
              /\ UNCHANGED homepage
         ELSE \E outcome \in {"written", "raised_before", "raised_after"} :
                 /\ homepage' = IF outcome = "raised_before" THEN homepage
                                ELSE Some(_build_homepage_services(config))
                 /\ IF outcome = "written"
                      THEN End(Continue("deploy_stack"))
                      ELSE \E box \in BoxOutcomes : Except(box)
    /\ UNCHANGED <<config, genVars, step, executed, results, cancel, dirs, manifest, deployed>>

\* What the docker command of deploy_stack does: it exits 0, exits non-zero,
\* or subprocess.run raises (caught inside deploy_stack).
DeployOutcomes == {"zero", "nonzero", "exception"}

\* deploy_stack and the if around it in run().  starting, failed and errors
\* are what the message boxes "Deploying services...", "Deployment failed:"
\* and "Deployment encountered errors." do when they are called, handler what
\* the message box of run()'s except clause does.  All of them are called
\* inside the try block of run().
deploy_stack_end(outcome, starting, failed, errors, handler) ==
    LET report == msgbox_in_try(MSG_DEPLOY_ERRORS, errors, handler, Return(RET_DEPLOY_ERRORS))
        after ==
            IF outcome = "zero" THEN Continue("show_completion")
            ELSE IF outcome = "nonzero" THEN report
            ELSE msgbox_in_try(MSG_DEPLOY_EXCEPTION, failed, handler, report)
    IN  msgbox_in_try(MSG_DEPLOYING, starting, handler, after)

\* The exceptions of a dialog that `except Exception` catches.
Caught == Failures \ {"SystemExit"}

\* A message box that is not called has no outcome: it is written "ok".  The
\* box "Deployment failed:" is called when subprocess.run raised, the box
\* "Deployment encountered errors." when deploy_stack returned False, and the
\* box of the except clause when one of the others raised an Exception.
deploy_stack_calls(outcome, starting, failed, errors, handler) ==
    LET failed_called == starting = "ok" /\ outcome = "exception"
        errors_called == starting = "ok" /\ outcome # "zero"
                         /\ (failed_called => failed = "ok")
    IN  /\ ~failed_called => failed = "ok"
        /\ ~errors_called => errors = "ok"
        /\ ({starting, failed, errors} \cap Caught = {}) => handler = "ok"

\* run() calling show_completion whatever deploy_stack returned.
Stage_deploy_stack_ignoring_result ==
    /\ pc = "deploy_stack"
    /\ stages' = Append(stages, "deploy_stack")
    /\ \E outcome \in DeployOutcomes, starting \in BoxOutcomes, failed \in BoxOutcomes,
          handler \in BoxOutcomes :
          /\ deploy_stack_calls(outcome, starting, failed, "ok", handler)
          /\ deployed' = IF starting = "ok" THEN Some(outcome = "zero") ELSE deployed
          /\ End(msgbox_in_try(MSG_DEPLOYING, starting, handler,
                   IF outcome = "exception"
                     THEN msgbox_in_try(MSG_DEPLOY_EXCEPTION, failed, handler,
                                        Continue("show_completion"))
                     ELSE Continue("show_completion")))
    /\ UNCHANGED <<config, genVars, homepage, step, executed, results, cancel, dirs, manifest>>

\* The docker command is reached only when the first message box returned.
Stage_deploy_stack ==
    /\ pc = "deploy_stack"
    /\ stages' = Append(stages, "deploy_stack")
    /\ \E outcome \in DeployOutcomes, starting \in BoxOutcomes, failed \in BoxOutcomes,
          errors \in BoxOutcomes, handler \in BoxOutcomes :
          /\ deploy_stack_calls(outcome, starting, failed, errors, handler)
          /\ deployed' = IF starting = "ok" THEN Some(outcome = "zero") ELSE deployed
          /\ End(deploy_stack_end(outcome, starting, failed, errors, handler))
    /\ UNCHANGED <<config, genVars, homepage, step, executed, results, cancel, dirs, manifest>>

\* show_completion and the return 0 after it; its message box is inside the
\* try block of run().
Stage_show_completion ==
    /\ pc = "show_completion"
    /\ stages' = Append(stages, "show_completion")
    /\ \E box \in BoxOutcomes, handler \in BoxOutcomes :
          /\ box \notin Caught => handler = "ok"
          /\ End(msgbox_in_try(MSG_COMPLETE, box, handler, Return(RET_SUCCESS)))
    /\ UNCHANGED <<config, genVars, homepage, step, executed, results, cancel, dirs, manifest, deployed>>

Next ==
    \/ Step_show_welcome
    \/ Step_select_media_server
    \/ Step_select_download_method
    \/ Step_select_downloader
    \/ Step_select_gateway
    \/ Step_select_dashboard
    \/ Step_select_extra_services
    \/ Step_configure_vpn
    \/ Step_detect_hardware_transcoding
    \/ Step_configure_timezone
    \/ Step_show_summary
    \/ Stage_create_directories
    \/ Stage_generate_compose
    \/ Stage_generate_homepage_config
    \/ Stage_deploy_stack
    \/ Stage_show_completion

Spec == Init /\ [][Next]_vars

----------------------------------------------------------------------------
\* Reading a service graph.

Names(svcs) == Range(svcs.keys)

PortsOf(svcs, n) == IF "ports" \in DOMAIN svcs.vals[n] THEN svcs.vals[n].ports ELSE <<>>

DependsOn(svcs, n) ==
    IF "depends_on" \in DOMAIN svcs.vals[n] THEN svcs.vals[n].depends_on ELSE <<>>

HasNetworkMode(svcs, n) == "network_mode" \in DOMAIN svcs.vals[n]

\* Position of the first occurrence of the character c in s, 0 when absent.
IndexOf(s, c) ==
    IF \E i \in 1..Len(s) : Ch(s, i) = c
      THEN CHOOSE i \in 1..Len(s) : Ch(s, i) = c /\ \A j \in 1..(i - 1) : Ch(s, j) # c
      ELSE 0

\* A compose port entry "host:container[/proto]": the host port and the
\* protocol, tcp when none is written.
HostPort(p) == SubSeq(p, 1, IndexOf(p, ":") - 1)
Protocol(p) == IF IndexOf(p, "/") = 0 THEN "tcp" ELSE SubSeq(p, IndexOf(p, "/") + 1, Len(p))
PortKey(p) == <<HostPort(p), Protocol(p)>>

NoPortCollision(svcs) ==
    \A n1 \in Names(svcs), n2 \in Names(svcs) :
        \A i \in DOMAIN PortsOf(svcs, n1), j \in DOMAIN PortsOf(svcs, n2) :
            (n1 # n2 \/ i # j) => PortKey(PortsOf(svcs, n1)[i]) # PortKey(PortsOf(svcs, n2)[j])

\* A compose network_mode "service:<name>" refers to the service <name>.
RefersToService(svcs, mode) == \E k \in Names(svcs) : mode = "service:" \o k

DependsOnResolve(svcs) ==
    \A n \in Names(svcs) : \A i \in DOMAIN DependsOn(svcs, n) : DependsOn(svcs, n)[i] \in Names(svcs)

PortsExcludeNetworkMode(svcs) ==
    \A n \in Names(svcs) : ~(PortsOf(svcs, n) # <<>> /\ HasNetworkMode(svcs, n))

Last(s) == s[Len(s)]

----------------------------------------------------------------------------
\* Properties.

\* C1: for every configuration with known values, the graph generate()
\* returns has no two port entries, in one service or in two, with the same
\* (host port, protocol) pair.
C1_NoPortCollision ==
    (gpc = "returned" /\ ValidConfig(config)) => NoPortCollision(services)

\* C2: when a menu, checklist or input dialog shown by a wizard step is
\* cancelled, run() ends with that step and runs no setup stage: it shows the
\* cancelled message and returns the cancelled result right there (or is
\* left by the exception of that message box).
C2_CancelEndsRun ==
    cancel # "" =>
        /\ pc \in {"done", "raised"}
        /\ pc = "done" =>
              /\ ret = Some(RET_CANCELLED)
              /\ shown # <<>> /\ Last(shown) = MSG_CANCELLED
        /\ pc = "raised" => dialog_error \in Failures /\ ret = None
        /\ stages = <<>>

\* C3: directories, the generator, the manifest, the dashboard config and the
\* deployment are touched only in a run in which every step of the step list,
\* show_summary last, was called and returned success.
C3_SetupOnlyAfterAllSteps ==
    (stages # <<>> \/ dirs # <<>> \/ gpc # "idle" \/ services # EmptyDict
        \/ manifest # None \/ homepage # None \/ deployed # None)
    => (executed = steps /\ Len(results) = Len(steps)
        /\ \A i \in DOMAIN results : results[i])

C3_Witness ==
    /\ pc = "done"
    /\ stages = <<"create_directories", "generate_compose", "generate_homepage_config", "deploy_stack">>
    /\ manifest # None
    /\ deployed # None

\* C4: the value run() returns after a step aborted differs from every value
\* it returns after a setup stage failed.
C4_CancelledResultDistinct ==
    (pc = "done" /\ shown # <<>> /\ Last(shown) = MSG_CANCELLED)
    => (ret # Some(RET_EXCEPTION) /\ ret # Some(RET_DEPLOY_ERRORS))

\* C5: the steps called are always a prefix of the step list (in order, each
\* once, none skipped), every call but the last returned success, and after a
\* call that returned abort, or that returned nothing because a dialog raised,
\* run() is over.
C5_StepsInOrder ==
    /\ Len(executed) <= Len(steps)
    /\ executed = SubSeq(steps, 1, Len(executed))
    /\ Len(results) \in {Len(executed), Len(executed) - 1}
    /\ \A i \in 1..(Len(executed) - 1) : i <= Len(results) /\ results[i]
    /\ (results # <<>> /\ ~Last(results)) => pc \in {"done", "raised"}
    /\ Len(results) < Len(executed) => pc = "raised"
    /\ pc = "steps" => step = Len(executed) + 1 /\ Len(results) = Len(executed)

C5_Witness ==
    /\ pc = "done"
    /\ Len(executed) = 6
    /\ ~results[6]

\* C6: with an enumerated field outside its known set, generate() adds no
\* service and does not return.
C6_UnknownValueFailsFast ==
    ~ValidConfig(config) => (services = EmptyDict /\ gpc # "returned")

\* The three checks of the consistency validator.
GraphValid(svcs) ==
    /\ DependsOnResolve(svcs)
    /\ \A n \in Names(svcs) :
          HasNetworkMode(svcs, n) =>
              (svcs.vals[n].network_mode = "host" \/ RefersToService(svcs, svcs.vals[n].network_mode))
    /\ NoPortCollision(svcs)
    /\ PortsExcludeNetworkMode(svcs)

\* C7: a graph that fails the consistency checks is never written as the
\* manifest and never deployed.
C7_InvalidGraphNeverWritten ==
    (manifest # None \/ deployed # None) => GraphValid(services)

\* C8: every link entry of _build_homepage_services() names, in its container
\* field, a service of the graph generate() returned for the same
\* configuration.
C8_LinksNameGraphServices ==
    (gpc = "returned" /\ homepage # None /\ ValidConfig(config)) =>
        \A c \in DOMAIN homepage[1] : \A e \in DOMAIN homepage[1][c].entries :
            Has(services, homepage[1][c].entries[e].container)

\* C9 as claimed: in the returned graph every network_mode value refers to a
\* service of the graph and every depends_on entry is a key of the graph.
C9_Original ==
    gpc = "returned" =>
        /\ DependsOnResolve(services)
        /\ \A n \in Names(services) :
              HasNetworkMode(services, n) => RefersToService(services, services.vals[n].network_mode)

\* C9 (amended): in the returned graph every depends_on entry is a key of the
\* graph, and every network_mode value is either service:<name> with <name> a
\* key of the graph, or the literal host, which only the plex service has.
C9_ReferencesResolve ==
    gpc = "returned" =>
        /\ DependsOnResolve(services)
        /\ \A n \in Names(services) :
              HasNetworkMode(services, n) =>
                  \/ RefersToService(services, services.vals[n].network_mode)
                  \/ (n = "plex" /\ services.vals[n].network_mode = "host")

C9_Witness ==
    /\ gpc = "returned"
    /\ Has(services, "plex") /\ services.vals["plex"].network_mode = "host"
    /\ Has(services, "qbittorrent") /\ HasNetworkMode(services, "qbittorrent")
    /\ services.vals["qbittorrent"].network_mode = "service:gluetun"
    /\ services.vals["qbittorrent"].depends_on = <<"gluetun">>
    /\ Has(services, "gluetun")

\* C10: in the returned graph no service has both a non-empty ports list and
\* a network_mode field.
C10_PortsExcludeNetworkMode ==
    gpc = "returned" => PortsExcludeNetworkMode(services)

C10_Witness ==
    /\ gpc = "returned"
    /\ config.enable_vpn /\ config.enable_torrents
    /\ Has(services, "qbittorrent") /\ HasNetworkMode(services, "qbittorrent")
    /\ PortsOf(services, "qbittorrent") = <<>>
    /\ PortsOf(services, "gluetun") # <<>>

----------------------------------------------------------------------------
\* The overlays.

TORRENT_PORTS == <<"8080:8080", "6881:6881", "6881:6881/udp">>

\* C11: with torrents on, a returned graph with the VPN on holds gluetun with
\* exactly the ports qbittorrent had when the overlay started, and qbittorrent
\* without ports, with network_mode service:gluetun and gluetun among its
\* depends_on; with the VPN off it holds no gluetun, and qbittorrent keeps
\* those ports and has neither network_mode nor depends_on.
C11_TunnelCarriesTorrentPorts ==
    (gpc = "returned" /\ config.enable_torrents) =>
        LET before == graph_before("_add_vpn", config)
            qb == services.vals["qbittorrent"]
        IN  /\ Has(services, "qbittorrent")
            /\ PortsOf(before, "qbittorrent") = TORRENT_PORTS
            /\ IF config.enable_vpn
                 THEN /\ Has(services, "gluetun")
                      /\ PortsOf(services, "gluetun") = PortsOf(before, "qbittorrent")
                      /\ "ports" \notin DOMAIN qb
                      /\ HasNetworkMode(services, "qbittorrent")
                      /\ qb.network_mode = "service:gluetun"
                      /\ "gluetun" \in Range(DependsOn(services, "qbittorrent"))
                 ELSE /\ ~Has(services, "gluetun")
                      /\ PortsOf(services, "qbittorrent") = TORRENT_PORTS
                      /\ ~HasNetworkMode(services, "qbittorrent")
                      /\ "depends_on" \notin DOMAIN qb

C11_Witness ==
    /\ gpc = "returned"
    /\ config.enable_torrents /\ config.enable_vpn
    /\ Has(services, "gluetun")
    /\ PortsOf(services, "gluetun") = TORRENT_PORTS
    /\ "ports" \notin DOMAIN services.vals["qbittorrent"]

\* C12: applying _add_vpn a second time to the graph its first application
\* left changes nothing: gluetun is the same, qbittorrent still has no ports,
\* one network_mode reference and exactly one depends_on entry.
C12_VpnOverlayIdempotent ==
    gpc = "_configure_transcoding" =>
        LET twice == _add_vpn(config, services)
        IN  /\ twice = services
            /\ (config.enable_vpn /\ Has(services, "qbittorrent")) =>
                  /\ twice.vals["gluetun"] = services.vals["gluetun"]
                  /\ "ports" \notin DOMAIN twice.vals["qbittorrent"]
                  /\ twice.vals["qbittorrent"].network_mode = "service:gluetun"
                  /\ twice.vals["qbittorrent"].depends_on = <<"gluetun">>

C12_Witness ==
    /\ gpc = "_configure_transcoding"
    /\ config.enable_vpn
    /\ Has(services, "qbittorrent")
    /\ DependsOn(services, "qbittorrent") = <<"gluetun">>

\* C13: when _add_vpn runs on a graph without qbittorrent it creates no
\* qbittorrent entry and leaves every service already in the graph as it was,
\* in place.
C13_NoTorrentClientNoMutation ==
    [][(gpc = "_add_vpn" /\ ~Has(services, "qbittorrent")) =>
          /\ ~Has(services', "qbittorrent")
          /\ \A n \in Names(services) : Has(services', n) /\ services'.vals[n] = services.vals[n]
          /\ SubSeq(services'.keys, 1, Len(services.keys)) = services.keys]_vars

C13_Witness ==
    /\ gpc = "_configure_transcoding"
    /\ config.enable_vpn /\ ~config.enable_torrents
    /\ Has(services, "gluetun")
    /\ ~Has(services, "qbittorrent")

PASSTHROUGH == "/dev/dri:/dev/dri"

Count(seq, x) == Cardinality({i \in DOMAIN seq : seq[i] = x})

\* C14: the returned graph, built with _add_vpn before
\* _configure_transcoding, equals the graph the two overlays give in the
\* other order, and with intel transcoding the media server's devices list
\* holds the passthrough entry exactly once.
C14_OverlaysOnceAndCommute ==
    gpc = "returned" =>
        LET before == graph_before("_add_vpn", config)
        IN  /\ services = _add_vpn(config, _configure_transcoding(config, before))
            /\ (config.enable_transcoding /\ config.transcoding_type = "intel") =>
                  Count(services.vals[config.media_server].devices, PASSTHROUGH) = 1

C14_Witness ==
    /\ gpc = "returned"
    /\ config.enable_transcoding /\ config.transcoding_type = "intel"
    /\ config.enable_vpn /\ Has(services, "gluetun")
    /\ services.vals[config.media_server].devices = <<PASSTHROUGH>>

\* The graph without the service called name (the other services keep
\* their order and their values).
DictRemove(svcs, name) ==
    [keys |-> SelectSeq(svcs.keys, LAMBDA k : k # name),
     vals |-> [n \in Range(svcs.keys) \ {name} |-> svcs.vals[n]]]

DevicesOf(spec) == IF "devices" \in DOMAIN spec THEN spec.devices ELSE <<>>

NVIDIA_ENV == {"NVIDIA_VISIBLE_DEVICES", "NVIDIA_DRIVER_CAPABILITIES"}

\* C15: the step of _configure_transcoding changes nothing when transcoding
\* is disabled; otherwise it keeps the order of the graph and every service
\* but the media server; intel appends one passthrough entry to the media
\* server's devices list (created when absent, entries kept on a further
\* call) and changes no other field; nvidia sets runtime and the visibility
\* environment entries and changes nothing else; without the media server
\* in the graph the overlay changes nothing.
C15_TranscodingFrame ==
    [][gpc = "_configure_transcoding" =>
        LET server == config.media_server
            old == services.vals[server]
            new == services'.vals[server]
            absent == DictRemove(services, server)
        IN  /\ _configure_transcoding(config, absent) = absent
            /\ IF ~config.enable_transcoding \/ ~Has(services, server)
                 THEN services' = services
                 ELSE /\ services'.keys = services.keys
                      /\ \A n \in Names(services) \ {server} :
                            services'.vals[n] = services.vals[n]
                      /\ CASE config.transcoding_type = "intel" ->
                                /\ DOMAIN new = DOMAIN old \cup {"devices"}
                                /\ \A k \in DOMAIN old \ {"devices"} : new[k] = old[k]
                                /\ new.devices = DevicesOf(old) \o <<PASSTHROUGH>>
                                /\ _configure_transcoding(config, services').vals[server].devices
                                      = new.devices \o <<PASSTHROUGH>>
                           [] config.transcoding_type = "nvidia" ->
                                /\ DOMAIN new = DOMAIN old \cup {"runtime"}
                                /\ \A k \in DOMAIN old \ {"runtime", "environment"} :
                                      new[k] = old[k]
                                /\ new.runtime = "nvidia"
                                /\ new.environment["NVIDIA_VISIBLE_DEVICES"] = "all"
                                /\ DOMAIN new.environment \ NVIDIA_ENV
                                      = DOMAIN old.environment \ NVIDIA_ENV
                                /\ \A k \in DOMAIN old.environment \ NVIDIA_ENV :
                                      new.environment[k] = old.environment[k]
                           [] OTHER -> new = old]_vars

C15_Witness ==
    /\ gpc = "return"
    /\ config.enable_transcoding /\ config.transcoding_type = "intel"
    /\ DevicesOf(services.vals[config.media_server]) = <<PASSTHROUGH>>
    /\ \E n \in Names(services) \ {config.media_server} :
          "devices" \in DOMAIN services.vals[n]

CREATORS ==
    {"_add_media_server", "_add_arr_suite", "_add_downloader", "_add_gateway",
     "_add_dashboard", "_add_watchtower", "_add_extra_services"}

OVERLAYS == {"_add_vpn", "_configure_transcoding"}

\* C16: in generate() a step changes a service that is already in the graph
\* only when it is the step of an overlay; when an overlay runs every
\* creating rule has already run (running any of them again would add no
\* service), the overlay creates no service but the tunnel, and its target
\* (qbittorrent when torrents are enabled, the media server) is in the graph.
C16_CreatorsBeforeMutators ==
    [][/\ \A n \in Names(services) :
            (Has(services', n) /\ services'.vals[n] # services.vals[n])
                => gpc \in OVERLAYS
       /\ gpc \in OVERLAYS =>
            /\ \A r \in CREATORS :
                  Names(apply_rule(r, config, services)) \subseteq Names(services)
            /\ Names(services') \ {"gluetun"} = Names(services) \ {"gluetun"}
            /\ Has(services, config.media_server)
            /\ (gpc = "_add_vpn" /\ config.enable_torrents)
                  => Has(services, "qbittorrent")]_vars

C16_Witness ==
    /\ gpc = "return"
    /\ config.enable_vpn /\ config.enable_torrents /\ config.enable_transcoding
    /\ HasNetworkMode(services, "qbittorrent")
    /\ "runtime" \in DOMAIN services.vals[config.media_server]

KeyPos(svcs, n) == CHOOSE i \in DOMAIN svcs.keys : svcs.keys[i] = n

REQUEST_MANAGER == "overseerr"

\* The services of the rules the spec puts after the request manager.
AfterRequestManager ==
    Range(gateway_choices) \cup Range(dashboard_choices) \cup {"watchtower"}

\* C17 as stated: the request manager is created after the downloaders and
\* before the gateway, the dashboard and the scheduled-update utility.
C17_Original ==
    (gpc = "returned" /\ Has(services, REQUEST_MANAGER)) =>
        /\ \A n \in Range(downloader_choices) :
              Has(services, n) => KeyPos(services, n) < KeyPos(services, REQUEST_MANAGER)
        /\ \A n \in AfterRequestManager :
              Has(services, n) => KeyPos(services, REQUEST_MANAGER) < KeyPos(services, n)

\* The place of a service in the order of generate(): the position of the
\* rule that creates it.
StageOf(n) ==
    CASE n \in Range(media_server_choices) -> 1
      [] n \in Range(arr_names) -> 2
      [] n \in Range(downloader_choices) -> 3
      [] n \in Range(gateway_choices) -> 4
      [] n \in Range(dashboard_choices) -> 5
      [] n = "watchtower" -> 6
      [] n \in Range(extra_choices) -> 7
      [] n = "gluetun" -> 8

\* C17: generate() creates its services in the order media server, arr
\* suite, downloaders, gateway, dashboard, watchtower, optional extras (the
\* request manager overseerr among them), and the tunnel of the overlays
\* last: every step adds only services of the running rule's place, and the
\* services of the returned graph are in that order.
C17_RuleOrder ==
    [][/\ \A n \in Names(services') \ Names(services) :
            rule_order[StageOf(n)] = gpc
       /\ gpc' = "returned" =>
            \A i, j \in DOMAIN services.keys :
                i < j => StageOf(services.keys[i]) <= StageOf(services.keys[j])]_vars

C17_Witness ==
    /\ gpc = "returned"
    /\ Has(services, REQUEST_MANAGER) /\ Has(services, "watchtower")
    /\ Has(services, "gluetun") /\ Has(services, "traefik")
    /\ KeyPos(services, "watchtower") < KeyPos(services, REQUEST_MANAGER)
    /\ KeyPos(services, REQUEST_MANAGER) < KeyPos(services, "gluetun")

TORRENTS_VOLUME == "/opt/astro/torrents:/downloads/torrents"
USENET_VOLUME == "/opt/astro/usenet:/downloads/usenet"
CONTENT_MANAGERS == {"radarr", "sonarr", "lidarr", "readarr"}

\* The graph without the client service and without the downloads volume in
\* the volume lists of the content managers; nothing else is touched.
Omit(svcs, client, volume) ==
    LET rest == DictRemove(svcs, client)
    IN  [keys |-> rest.keys,
         vals |-> [n \in Range(rest.keys) |->
                     IF n \in CONTENT_MANAGERS
                       THEN [rest.vals[n] EXCEPT
                               !.volumes = SelectSeq(@, LAMBDA v : v # volume)]
                       ELSE rest.vals[n]]]

\* C18: the graph generate() returns with enable_torrents off (VPN off)
\* is the graph with it on less qbittorrent and the torrents downloads
\* volume of the content managers; the graph with enable_usenet off is the
\* graph with it on less the usenet client and the usenet downloads volume.
C18_OmissionLaw ==
    gpc = "returned" =>
        /\ (config.enable_torrents /\ ~config.enable_vpn) =>
              generate([config EXCEPT !.enable_torrents = FALSE]).services
                  = Omit(services, "qbittorrent", TORRENTS_VOLUME)
        /\ config.enable_usenet =>
              generate([config EXCEPT !.enable_usenet = FALSE]).services
                  = Omit(DictRemove(services, "nzbget"), "sabnzbd", USENET_VOLUME)

C18_Witness ==
    /\ gpc = "returned"
    /\ config.enable_torrents /\ ~config.enable_vpn /\ config.enable_usenet
    /\ Has(services, "qbittorrent") /\ Has(services, "nzbget")
    /\ TORRENTS_VOLUME \in Range(services.vals["radarr"].volumes)
    /\ USENET_VOLUME \in Range(services.vals["readarr"].volumes)

\* C20: with torrents on, usenet off, VPN off and no extra service, the
\* returned graph holds exactly the media server, the arr suite, qbittorrent,
\* the gateway, the dashboard and watchtower, and qbittorrent keeps its ports
\* and its own network.
C20_TorrentOnlyGraph ==
    (/\ gpc = "returned" /\ ValidConfig(config)
     /\ config.enable_torrents /\ ~config.enable_usenet /\ ~config.enable_vpn
     /\ config.extra_services = <<>>) =>
        /\ Names(services) =
              {config.media_server, "radarr", "sonarr", "lidarr", "readarr",
               "prowlarr", "qbittorrent", config.gateway, config.dashboard,
               "watchtower"}
        /\ Cardinality(Names(services)) = 10
        /\ Len(services.keys) = 10
        /\ PortsOf(services, "qbittorrent") = TORRENT_PORTS
        /\ ~HasNetworkMode(services, "qbittorrent")

C20_Witness ==
    /\ gpc = "returned" /\ ValidConfig(config)
    /\ config.enable_torrents /\ ~config.enable_usenet /\ ~config.enable_vpn
    /\ config.extra_services = <<>>
    /\ config.downloader = "sabnzbd"
    /\ Has(services, "qbittorrent") /\ ~Has(services, "sabnzbd")
    /\ ~Has(services, "gluetun")

----------------------------------------------------------------------------
\* The request manager.

OTHER_EXTRAS == <<"bazarr", "tautulli", "portainer">>

WithoutOtherExtras(svcs) ==
    DictRemove(DictRemove(DictRemove(svcs, OTHER_EXTRAS[1]), OTHER_EXTRAS[2]), OTHER_EXTRAS[3])

\* The graph generate() would return with the call of _add_extra_services
\* left out.
graph_skipping_extras(cfg) ==
    _configure_transcoding(cfg, _add_vpn(cfg, graph_before("_add_extra_services", cfg)))

\* C21: a graph never holds the request manager twice, and when overseerr is
\* not in extra_services the returned graph has no overseerr and, the other
\* extras set aside, is the graph of a run that skips _add_extra_services.
C21_NoRequestManagerNoEffect ==
    /\ Count(services.keys, REQUEST_MANAGER) <= 1
    /\ (gpc = "returned" /\ REQUEST_MANAGER \notin Range(config.extra_services)) =>
          /\ ~Has(services, REQUEST_MANAGER)
          /\ WithoutOtherExtras(services) = graph_skipping_extras(config)
          /\ config.extra_services = <<>> => services = graph_skipping_extras(config)

C21_Witness ==
    /\ gpc = "returned"
    /\ config.extra_services = <<>>
    /\ config.enable_vpn /\ Has(services, "gluetun") /\ Has(services, "watchtower")
    /\ ~Has(services, REQUEST_MANAGER)

----------------------------------------------------------------------------
\* The wizard's steps and stages.

DEFAULT_DOWNLOADER == "qbittorrent"

\* C22: with enable_usenet false the step select_downloader shows no menu
\* (no reply can cancel it), sets downloader to qbittorrent and nothing else,
\* returns success, and run() goes on to the next step, select_gateway.
C22_SingleDownloaderAutoDefault ==
    [][(AtStep("select_downloader") /\ ~config.enable_usenet) =>
          /\ ~select_downloader_prompts(config)
          /\ config' = [config EXCEPT !.downloader = DEFAULT_DOWNLOADER]
          /\ executed' = Append(executed, "select_downloader")
          /\ Last(results')
          /\ cancel' = ""
          /\ pc' = "steps" /\ step' = step + 1 /\ steps[step'] = "select_gateway"
          /\ ret' = None /\ shown' = shown]_vars

C22_Witness ==
    /\ pc = "steps" /\ AtStep("select_gateway")
    /\ ~config.enable_usenet
    /\ executed = SubSeq(steps, 1, 4) /\ results[4]
    /\ config.downloader = DEFAULT_DOWNLOADER

\* The setup stages of run() in call order.
setup_stages ==
    <<"create_directories", "generate_compose", "generate_homepage_config",
      "deploy_stack", "show_completion">>

StageCalled(name) == name \in Range(stages)

\* run() is over with a failure result and without the completion message.
EndedFailed ==
    /\ pc = "done"
    /\ ret # None /\ ret[1] # RET_SUCCESS
    /\ MSG_COMPLETE \notin Range(shown)
    /\ ~StageCalled("show_completion")

\* run() was left by the exception of a dialog: it returned nothing.
EndedRaised ==
    /\ pc = "raised"
    /\ ret = None
    /\ dialog_error \in Failures
    /\ MSG_COMPLETE \notin Range(shown)
    /\ ~StageCalled("show_completion")

\* What a failed stage leaves behind.
DirectoriesFailed == StageCalled("create_directories") /\ dirs # create_directories_dirs
ManifestFailed == StageCalled("generate_compose") /\ manifest = None
DashboardFailed ==
    StageCalled("generate_homepage_config") /\ config.dashboard = "homepage" /\ homepage = None
DeployFailed == deployed = Some(FALSE)
ExceptionReported == MSG_FAILED \in Range(shown)

\* C23 as stated: the stages called are a prefix of the stage list (none
\* twice), and once a stage has failed (directories missing, no manifest, no
\* dashboard config, or the deployment unsuccessful) run() has returned at
\* that stage a failure result, without the completion message.
C23_Original ==
    /\ stages = SubSeq(setup_stages, 1, Len(stages))
    /\ DirectoriesFailed => (EndedFailed /\ Len(stages) = 1)
    /\ ManifestFailed => (EndedFailed /\ Len(stages) = 2)
    /\ DashboardFailed => (EndedFailed /\ Len(stages) = 3)
    /\ DeployFailed => (EndedFailed /\ Len(stages) = 4)

\* The failure of a stage was reported by the message box of its handler.
FailureReported(last) ==
    /\ shown # <<>> /\ Last(shown) = last
    /\ pc = "done"

\* C23: the stages called are a prefix of the stage list (none twice), and
\* once a stage has failed (directories missing, no manifest, no dashboard
\* config, or the deployment unsuccessful) run() is over at that stage
\* without the completion message: it has returned a failure result, or a
\* message box reporting the failure raised and run() was left by that
\* exception; when no dialog raised, the failure was reported and run()
\* returned.
C23_StageFailureEndsRun ==
    /\ stages = SubSeq(setup_stages, 1, Len(stages))
    /\ DirectoriesFailed => ((EndedFailed \/ EndedRaised) /\ Len(stages) = 1)
    /\ ManifestFailed => ((EndedFailed \/ EndedRaised) /\ Len(stages) = 2)
    /\ DashboardFailed => ((EndedFailed \/ EndedRaised) /\ Len(stages) = 3)
    /\ DeployFailed => ((EndedFailed \/ EndedRaised) /\ Len(stages) = 4)
    /\ ((DirectoriesFailed \/ ManifestFailed \/ DashboardFailed) /\ dialog_error = "")
          => (FailureReported(MSG_FAILED) /\ ret = Some(RET_EXCEPTION) /\ deployed = None)
    /\ (DeployFailed /\ dialog_error = "")
          => (FailureReported(MSG_DEPLOY_ERRORS) /\ ret = Some(RET_DEPLOY_ERRORS))
    /\ (ExceptionReported /\ dialog_error = "") => (EndedFailed /\ Len(stages) <= 3)

C23_Witness ==
    /\ pc = "done" /\ ret = Some(RET_EXCEPTION)
    /\ ManifestFailed /\ ExceptionReported
    /\ stages = <<"create_directories", "generate_compose">>
    /\ dirs = create_directories_dirs

\* C24: whenever deploy_stack has been called, create_directories made the
\* whole directory tree and generate_compose wrote the manifest of the
\* current configuration, both before it and neither with an error.
C24_DeployAfterDirsAndManifest ==
    (StageCalled("deploy_stack") \/ deployed # None \/ pc = "deploy_stack") =>
        /\ Len(stages) >= 2
        /\ SubSeq(stages, 1, 2) = <<"create_directories", "generate_compose">>
        /\ dirs = create_directories_dirs
        /\ gpc = "returned"
        /\ manifest = Some(compose_config(generate(config).services))
        /\ pc = "deploy_stack" => (~ExceptionReported /\ dialog_error = "")

C24_Witness ==
    /\ StageCalled("deploy_stack") /\ deployed = Some(TRUE)
    /\ dirs = create_directories_dirs
    /\ manifest # None

AllStepsSucceeded ==
    /\ executed = steps
    /\ Len(results) = Len(steps)
    /\ \A i \in DOMAIN results : results[i]

\* C25: once every wizard step has succeeded, enable_vpn implies
\* enable_torrents and a non-empty provider, username and password; and the
\* graph generated from that configuration has gluetun only together with
\* qbittorrent.
C25_VpnNeedsTorrentsAndCredentials ==
    /\ (AllStepsSucceeded /\ config.enable_vpn) =>
          /\ config.enable_torrents
          /\ config.vpn_provider # ""
          /\ config.vpn_username # ""
          /\ config.vpn_password # ""
    /\ (gpc = "returned" /\ Has(services, "gluetun")) =>
          /\ Has(services, "qbittorrent")
          /\ services.vals["gluetun"].environment["OPENVPN_USER"] # ""
          /\ services.vals["gluetun"].environment["OPENVPN_PASSWORD"] # ""

C25_Witness ==
    /\ AllStepsSucceeded /\ config.enable_vpn
    /\ gpc = "returned"
    /\ Has(services, "gluetun") /\ Has(services, "qbittorrent")
    /\ config.vpn_username = "user"

\* Every step succeeded, the three writing stages ran without raising (run()
\* went on to deploy_stack) and deploy_stack returned True.
SetupSucceeded ==
    /\ AllStepsSucceeded
    /\ Len(stages) >= 4 /\ SubSeq(stages, 1, 4) = SubSeq(setup_stages, 1, 4)
    /\ dirs = create_directories_dirs
    /\ manifest # None
    /\ config.dashboard = "homepage" => homepage # None
    /\ deployed = Some(TRUE)

FailureResults == {Some(RET_CANCELLED), Some(RET_DEPLOY_ERRORS), Some(RET_EXCEPTION)}

\* run() returns 0, calls show_completion or shows the completion message
\* only in a run where every step succeeded, no writing stage raised and
\* deploy_stack returned True.
SuccessOnlyWhenAllSucceeded ==
    /\ (ret = Some(RET_SUCCESS) \/ StageCalled("show_completion")
          \/ MSG_COMPLETE \in Range(shown) \/ pc = "show_completion") => SetupSucceeded
    /\ ret = Some(RET_SUCCESS) => (StageCalled("show_completion") /\ Last(shown) = MSG_COMPLETE)

\* C26 as stated: success only when everything succeeded, and a run that
\* ends otherwise returns 1 and never calls show_completion.
C26_Original ==
    /\ SuccessOnlyWhenAllSucceeded
    /\ (pc \in {"done", "raised"} /\ ~SetupSucceeded) =>
          /\ ret \in FailureResults
          /\ ~StageCalled("show_completion")
          /\ MSG_COMPLETE \notin Range(shown)

\* C26: run() returns 0, calls show_completion or shows the completion
\* message only in a run where every step succeeded, no writing stage raised
\* and deploy_stack returned True; a run that ends otherwise never calls
\* show_completion and never returns 0: it returns 1, or it returns nothing
\* because a dialog raised and run() was left by that exception.
C26_SuccessOnlyWhenAllSucceeded ==
    /\ SuccessOnlyWhenAllSucceeded
    /\ (pc \in {"done", "raised"} /\ ~SetupSucceeded) =>
          /\ pc = "done" => ret \in FailureResults
          /\ pc = "raised" => (ret = None /\ dialog_error \in Failures)
          /\ dialog_error = "" => pc = "done"
          /\ ~StageCalled("show_completion")
          /\ MSG_COMPLETE \notin Range(shown)
    /\ pc = "done" <=> ret # None

C26_Witness ==
    /\ pc = "done" /\ ret = Some(RET_SUCCESS)
    /\ SetupSucceeded
    /\ stages = setup_stages
    /\ Last(shown) = MSG_COMPLETE

\* The fields of the configuration each step assigns.
OwnFields ==
    [show_welcome |-> {},
     select_media_server |-> {"media_server"},
     select_download_method |-> {"enable_torrents", "enable_usenet"},
     select_downloader |-> {"downloader"},
     select_gateway |-> {"gateway"},
     select_dashboard |-> {"dashboard"},
     select_extra_services |-> {"extra_services"},
     configure_vpn |-> {"enable_vpn", "vpn_provider", "vpn_username", "vpn_password"},
     detect_hardware_transcoding |-> {"enable_transcoding", "transcoding_type"},
     configure_timezone |-> {"timezone"},
     show_summary |-> {}]

\* C27: a step call that returns abort leaves the configuration as it was,
\* and a step call that returns success (or is left by the exception of a
\* dialog) changes no field but its own
\* (select_media_server only media_server, select_downloader only
\* downloader, select_gateway only gateway, select_dashboard only dashboard,
\* configure_timezone only timezone).
C27_StepFrame ==
    [][executed' # executed =>
          LET name == Last(executed')
          IN  /\ DOMAIN config' = DOMAIN config
              /\ (results' # results /\ ~Last(results')) => config' = config
              /\ \A f \in DOMAIN config \ OwnFields[name] : config'[f] = config[f]]_vars

C27_Witness ==
    /\ pc = "done" /\ ~Last(results) /\ Last(executed) = "select_gateway"
    /\ config.media_server = "plex" /\ config.media_server # UserConfig.media_server
    /\ config.gateway = UserConfig.gateway
    /\ config.dashboard = UserConfig.dashboard

----------------------------------------------------------------------------
\* Termination of run().

\* run() is one sequential thread: as long as every dialog and every
\* external command returns, the call it is at is eventually made.
SpecLive == Init /\ [][Next]_vars /\ WF_vars(Next)

NoDuplicates(seq) == \A i, j \in DOMAIN seq : seq[i] = seq[j] => i = j

OutcomeCancelled == MSG_CANCELLED \in Range(shown)
OutcomeFailed == MSG_FAILED \in Range(shown) \/ MSG_DEPLOY_ERRORS \in Range(shown)
OutcomeSuccess == MSG_COMPLETE \in Range(shown)

ExactlyOneOutcome ==
    Cardinality({o \in {"cancelled", "failed", "success"} :
                    \/ o = "cancelled" /\ OutcomeCancelled
                    \/ o = "failed" /\ OutcomeFailed
                    \/ o = "success" /\ OutcomeSuccess}) = 1

Terminated == pc = "done" /\ ret # None /\ ExactlyOneOutcome

\* Every dialog so far has returned.
DialogsReturned == dialog_error = ""

\* C28: every run of run() in which every dialog returns ends: it eventually
\* returns with exactly one of the outcomes cancelled, failed, success and
\* stays there; and throughout no step and no setup stage is executed twice,
\* and no outcome is shown before run() is over.
C28_RunTerminates ==
    /\ <>[](Terminated \/ ~DialogsReturned)
    /\ [](/\ NoDuplicates(executed) /\ Len(executed) <= Len(steps)
          /\ NoDuplicates(stages) /\ Len(stages) <= Len(setup_stages)
          /\ (DialogsReturned /\ (OutcomeCancelled \/ OutcomeFailed \/ OutcomeSuccess))
                => Terminated)

C28_Witness ==
    /\ Terminated /\ OutcomeFailed /\ DialogsReturned
    /\ Len(executed) = Len(steps) /\ NoDuplicates(executed)
    /\ stages = SubSeq(setup_stages, 1, 4)

====
